---------------------------- MODULE Spec2Model ----------------------------
(***************************************************************************)
(* A model of quickwit-datetime's date_time_format.rs: the strptime and    *)
(* Java-style pattern compilers, the StrptimeParser parse/format engine,   *)
(* year inference, and the DateTimeInputFormat / DateTimeOutputFormat      *)
(* selectors.                                                              *)
(*                                                                         *)
(* Strings are sequences of one-character strings, so that to_lowercase,   *)
(* substring search, tokenizing, parsing and formatting are computed       *)
(* character by character as the code computes them.                       *)
(***************************************************************************)
EXTENDS Integers, Sequences, FiniteSets, TLC

(***************************************************************************)
(* Options and results                                                     *)
(***************************************************************************)
None == <<>>
Some(v) == <<v>>
IsSome(o) == Len(o) = 1
IsNone(o) == Len(o) = 0
Unwrap(o) == o[1]

(***************************************************************************)
(* Characters                                                              *)
(***************************************************************************)
DigitChars == <<"0", "1", "2", "3", "4", "5", "6", "7", "8", "9">>
UpperLetters == <<"A", "B", "C", "D", "E", "F", "G", "H", "I", "J", "K", "L", "M",
                  "N", "O", "P", "Q", "R", "S", "T", "U", "V", "W", "X", "Y", "Z">>
LowerLetters == <<"a", "b", "c", "d", "e", "f", "g", "h", "i", "j", "k", "l", "m",
                  "n", "o", "p", "q", "r", "s", "t", "u", "v", "w", "x", "y", "z">>

IsDigit(c) == \E i \in 1..10 : DigitChars[i] = c
DigitVal(c) == (CHOOSE i \in 1..10 : DigitChars[i] = c) - 1
DigitChar(n) == DigitChars[n + 1]
IsUpper(c) == \E i \in 1..26 : UpperLetters[i] = c
IsLower(c) == \E i \in 1..26 : LowerLetters[i] = c

\* char::to_lowercase on the ASCII range.
ToLowerChar(c) ==
    IF IsUpper(c) THEN LowerLetters[CHOOSE i \in 1..26 : UpperLetters[i] = c] ELSE c

\* str::to_lowercase.
to_lowercase(s) == [i \in 1..Len(s) |-> ToLowerChar(s[i])]

\* The regex class \w on the ASCII range: letters, digits and the underscore.
IsWordChar(c) == IsDigit(c) \/ IsUpper(c) \/ IsLower(c) \/ c = "_"

\* Whether s starts with the string p.
StartsWith(s, p) == Len(s) >= Len(p) /\ SubSeq(s, 1, Len(p)) = p

\* str::contains.
Contains(s, p) == \E i \in 0..(Len(s) - Len(p)) : SubSeq(s, i + 1, i + Len(p)) = p

Drop(s, n) == SubSeq(s, n + 1, Len(s))

RECURSIVE Concat(_)
Concat(ss) == IF ss = <<>> THEN <<>> ELSE Head(ss) \o Concat(Tail(ss))

(***************************************************************************)
(* Format items (time::format_description::OwnedFormatItem)                *)
(***************************************************************************)
\* fn literal: a Literal item holding a copy of the bytes.
literal(s) == [k |-> "Literal", mod |-> "", bytes |-> s]

\* OwnedFormatItem::Component(kind with its one distinguishing modifier).
Component(kind, mod) == [k |-> kind, mod |-> mod, bytes |-> <<>>]

\* fn build_day_item: zero padded for a two-character match, else unpadded.
build_day_item(ptn) ==
    Some(Component("Day", IF Len(ptn) = 2 THEN "Zero" ELSE "None"))

\* build_month_item building the day component, as build_day_item does.
build_month_item_Day(ptn) ==
    Some(Component("Day", IF Len(ptn) = 2 THEN "Zero" ELSE "None"))

\* fn build_month_item.
build_month_item(ptn) ==
    Some(Component("Month", IF Len(ptn) = 2 THEN "Zero" ELSE "None"))

\* build_year_item with the test on the match length turned around.
build_year_item_Swapped(ptn) ==
    Some(Component("Year", IF Len(ptn) = 4 THEN "LastTwo" ELSE "Full"))

\* fn build_year_item: a full year for a four-character match, else the last
\* two digits.
build_year_item(ptn) ==
    Some(Component("Year", IF Len(ptn) = 4 THEN "Full" ELSE "LastTwo"))

(***************************************************************************)
(* Results                                                                 *)
(***************************************************************************)
Ok(v) == [ok |-> TRUE, val |-> v]
Err(e) == [ok |-> FALSE, err |-> e]

(***************************************************************************)
(* The Java date format tokenizer                                          *)
(***************************************************************************)
\* The number of (regex, builder) rules java_date_format_tokenizer declares.
NumRules == 6

QUOTE == "'"

\* [^']+' after an opening quote: the index of the closing quote, the first
\* quote after at least one other character (0: none).
ClosingQuote(s) ==
    IF \E j \in 3..Len(s) : s[j] = QUOTE /\ \A i \in 2..(j - 1) : s[i] # QUOTE
    THEN CHOOSE j \in 3..Len(s) : s[j] = QUOTE /\ \A i \in 2..(j - 1) : s[i] # QUOTE
    ELSE 0

\* The length of the prefix of s that the i-th rule's regex matches, anchored
\* at the start of s and greedy (0: the rule does not match):
\*   1: yy(yy)?   2: MM?   3: dd?   4: ''   5: '[^']+'   6: [^\w\[\]{}]
RuleMatchLen(i, s) ==
    CASE i = 1 -> IF StartsWith(s, <<"y", "y", "y", "y">>) THEN 4
                  ELSE IF StartsWith(s, <<"y", "y">>) THEN 2 ELSE 0
      [] i = 2 -> IF StartsWith(s, <<"M", "M">>) THEN 2
                  ELSE IF StartsWith(s, <<"M">>) THEN 1 ELSE 0
      [] i = 3 -> IF StartsWith(s, <<"d", "d">>) THEN 2
                  ELSE IF StartsWith(s, <<"d">>) THEN 1 ELSE 0
      [] i = 4 -> IF StartsWith(s, <<QUOTE, QUOTE>>) THEN 2 ELSE 0
      [] i = 5 -> IF s # <<>> /\ s[1] = QUOTE THEN ClosingQuote(s) ELSE 0
      [] i = 6 -> IF s # <<>> /\ ~IsWordChar(s[1])
                     /\ s[1] \notin {"[", "]", "{", "}"}
                  THEN 1 ELSE 0

\* The builders with the sixth rule's stripping the ends of its match, as the
\* fifth rule's does.
RuleBuild_Stripped(i, m) ==
    CASE i = 1 -> build_year_item(m)
      [] i = 2 -> build_month_item(m)
      [] i = 3 -> build_day_item(m)
      [] i = 4 -> Some(literal(<<QUOTE>>))
      [] i = 5 -> Some(literal(SubSeq(m, 2, Len(m) - 1)))
      [] i = 6 -> Some(literal(SubSeq(m, 2, Len(m) - 1)))

\* The i-th rule's builder applied to the matched text m.
RuleBuild(i, m) ==
    CASE i = 1 -> build_year_item(m)
      [] i = 2 -> build_month_item(m)
      [] i = 3 -> build_day_item(m)
      [] i = 4 -> Some(literal(<<QUOTE>>))
      [] i = 5 -> Some(literal(SubSeq(m, 2, Len(m) - 1)))
      [] i = 6 -> Some(literal(m))

\* The first rule, in declaration order, that matches a non-empty prefix of
\* s (0: none does).
FirstRule(s) ==
    IF \E i \in 1..NumRules : RuleMatchLen(i, s) > 0
    THEN CHOOSE i \in 1..NumRules :
            /\ RuleMatchLen(i, s) > 0
            /\ \A j \in 1..(i - 1) : RuleMatchLen(j, s) = 0
    ELSE 0

\* RegexTokenizer::tokenize from byte offset pos on: the tokens built so far
\* and the spans (offset, length, rule) consumed so far are carried along.
\* Ends with the tokens, or with the offset at which no rule matches.
RECURSIVE TokenizeFrom(_, _, _, _)
TokenizeFrom(text, pos, tokens, spans) ==
    IF text = <<>> THEN [ok |-> TRUE, val |-> tokens, spans |-> spans, tokens |-> tokens]
    ELSE LET r == FirstRule(text) IN
         IF r = 0 THEN [ok |-> FALSE, err |-> pos, spans |-> spans, tokens |-> tokens]
         ELSE LET n == RuleMatchLen(r, text)
                  b == RuleBuild(r, SubSeq(text, 1, n))
              IN  TokenizeFrom(Drop(text, n), pos + n,
                               IF IsSome(b) THEN Append(tokens, Unwrap(b)) ELSE tokens,
                               Append(spans, [pos |-> pos, len |-> n, rule |-> r]))

tokenize(text) == TokenizeFrom(text, 0, <<>>, <<>>)

(***************************************************************************)
(* The Java alias table                                                    *)
(***************************************************************************)
S_date_optional_time ==
    <<"d", "a", "t", "e", "_", "o", "p", "t", "i", "o", "n", "a", "l", "_", "t", "i", "m", "e">>
S_strict_date_optional_time ==
    <<"s", "t", "r", "i", "c", "t", "_", "d", "a", "t", "e", "_", "o", "p", "t", "i", "o",
      "n", "a", "l", "_", "t", "i", "m", "e">>
S_strict_date_optional_time_nanos ==
    <<"s", "t", "r", "i", "c", "t", "_", "d", "a", "t", "e", "_", "o", "p", "t", "i", "o",
      "n", "a", "l", "_", "t", "i", "m", "e", "_", "n", "a", "n", "o", "s">>
S_basic_date == <<"b", "a", "s", "i", "c", "_", "d", "a", "t", "e">>
J_millis ==
    <<"y", "y", "y", "y", "-", "M", "M", "-", "d", "d", "'", "T", "'", "H", "H", ":", "m",
      "m", ":", "s", "s", ".", "S", "S", "S", "Z">>
J_nanos ==
    <<"y", "y", "y", "y", "-", "M", "M", "-", "d", "d", "'", "T", "'", "H", "H", ":", "m",
      "m", ":", "s", "s", ".", "S", "S", "S", "S", "S", "S", "Z">>
J_basic_date == <<"y", "y", "y", "y", "M", "M", "d", "d">>

\* fn resolve_java_datetime_format_alias: the pattern an alias stands for, or
\* the string itself when it is no alias.
resolve_java_datetime_format_alias(java_datetime_format) ==
    CASE java_datetime_format = S_date_optional_time -> J_millis
      [] java_datetime_format = S_strict_date_optional_time -> J_millis
      [] java_datetime_format = S_strict_date_optional_time_nanos -> J_nanos
      [] java_datetime_format = S_basic_date -> J_basic_date
      [] OTHER -> java_datetime_format

(***************************************************************************)
(* Numbers as text                                                         *)
(***************************************************************************)
Abs(n) == IF n < 0 THEN -n ELSE n

\* The number of leading ASCII digits of s, at most max.
RECURSIVE DigitRun(_, _)
DigitRun(s, max) ==
    IF max = 0 \/ s = <<>> \/ ~IsDigit(Head(s)) THEN 0
    ELSE 1 + DigitRun(Tail(s), max - 1)

RECURSIVE DigitsValue(_)
DigitsValue(ds) ==
    IF ds = <<>> THEN 0
    ELSE DigitsValue(SubSeq(ds, 1, Len(ds) - 1)) * 10 + DigitVal(ds[Len(ds)])

\* The decimal digits of n >= 0.
RECURSIVE NumStr(_)
NumStr(n) == IF n < 10 THEN <<DigitChar(n)>> ELSE NumStr(n \div 10) \o <<DigitChar(n % 10)>>

RECURSIVE ZeroFill(_, _)
ZeroFill(s, width) == IF Len(s) >= width THEN s ELSE ZeroFill(<<"0">> \o s, width)

\* time's format_number: n in `width` columns under the component's padding.
format_number(n, width, padding) ==
    CASE padding = "None" -> NumStr(n)
      [] padding = "Space" ->
            [i \in 1..(width - Len(NumStr(n))) |-> " "] \o NumStr(n)
      [] OTHER -> ZeroFill(NumStr(n), width)

(***************************************************************************)
(* The names of the days of the week and of the months                     *)
(***************************************************************************)
\* The short names, Monday and January first.
WeekdayNames == <<<<"M", "o", "n">>, <<"T", "u", "e">>, <<"W", "e", "d">>, <<"T", "h", "u">>,
                  <<"F", "r", "i">>, <<"S", "a", "t">>, <<"S", "u", "n">>>>
MonthNames == <<<<"J", "a", "n">>, <<"F", "e", "b">>, <<"M", "a", "r">>, <<"A", "p", "r">>,
                <<"M", "a", "y">>, <<"J", "u", "n">>, <<"J", "u", "l">>, <<"A", "u", "g">>,
                <<"S", "e", "p">>, <<"O", "c", "t">>, <<"N", "o", "v">>, <<"D", "e", "c">>>>

\* The long names.
WeekdayLongNames ==
    <<<<"M", "o", "n", "d", "a", "y">>, <<"T", "u", "e", "s", "d", "a", "y">>,
      <<"W", "e", "d", "n", "e", "s", "d", "a", "y">>, <<"T", "h", "u", "r", "s", "d", "a", "y">>,
      <<"F", "r", "i", "d", "a", "y">>, <<"S", "a", "t", "u", "r", "d", "a", "y">>,
      <<"S", "u", "n", "d", "a", "y">>>>
MonthLongNames ==
    <<<<"J", "a", "n", "u", "a", "r", "y">>, <<"F", "e", "b", "r", "u", "a", "r", "y">>,
      <<"M", "a", "r", "c", "h">>, <<"A", "p", "r", "i", "l">>, <<"M", "a", "y">>,
      <<"J", "u", "n", "e">>, <<"J", "u", "l", "y">>, <<"A", "u", "g", "u", "s", "t">>,
      <<"S", "e", "p", "t", "e", "m", "b", "e", "r">>, <<"O", "c", "t", "o", "b", "e", "r">>,
      <<"N", "o", "v", "e", "m", "b", "e", "r">>, <<"D", "e", "c", "e", "m", "b", "e", "r">>>>

(***************************************************************************)
(* The calendar (time::Date)                                               *)
(***************************************************************************)
is_leap_year(y) == (y % 4 = 0) /\ ((y % 100 # 0) \/ (y % 400 = 0))

days_in_month(y, m) ==
    IF m \in {4, 6, 9, 11} THEN 30
    ELSE IF m = 2 THEN (IF is_leap_year(y) THEN 29 ELSE 28)
    ELSE 31

days_in_year(y) == IF is_leap_year(y) THEN 366 ELSE 365

\* The days of year y that come before its month m.
RECURSIVE days_before_month(_, _)
days_before_month(y, m) ==
    IF m <= 1 THEN 0 ELSE days_before_month(y, m - 1) + days_in_month(y, m - 1)

\* Date::ordinal: the day of the year, from 1.
ordinal(y, m, d) == days_before_month(y, m) + d

\* Weekday::number_days_from_monday of day `ord` of year y (0: Monday).
number_days_from_monday(y, ord) ==
    LET adj_year == y - 1 IN
    (365 * adj_year + adj_year \div 4 - adj_year \div 100 + adj_year \div 400 + ord - 1) % 7

\* Weekday::number_days_from_sunday of a weekday counted from Monday.
number_days_from_sunday(from_monday) == (from_monday + 1) % 7

\* time's weeks_in_year: 53 when the year starts on a Thursday, or is a leap
\* year that starts on a Wednesday; else 52.
weeks_in_year(y) ==
    LET first == number_days_from_monday(y, 1) IN
    IF first = 3 \/ (first = 2 /\ is_leap_year(y)) THEN 53 ELSE 52

\* Date::to_iso_week_date: the ISO year and the ISO week of a day of a year.
to_iso_week_date(y, ord) ==
    LET week == (ord - (number_days_from_monday(y, ord) + 1) + 10) \div 7 IN
    IF week = 0 THEN [year |-> y - 1, week |-> weeks_in_year(y - 1)]
    ELSE IF week = 53 /\ weeks_in_year(y) = 52 THEN [year |-> y + 1, week |-> 1]
    ELSE [year |-> y, week |-> week]

(***************************************************************************)
(* Parsing a text against format items (time::parsing)                     *)
(***************************************************************************)
\* Parsed::new(): every field absent.
ParsedNew ==
    [year |-> None, year_last_two |-> None, iso_year |-> None,
     iso_year_last_two |-> None, month |-> None, ordinal |-> None, day |-> None,
     weekday |-> None, sunday_week_number |-> None, monday_week_number |-> None,
     iso_week_number |-> None,
     hour_24 |-> None, hour_12 |-> None, hour_12_is_pm |-> None,
     minute |-> None, second |-> None, subsecond |-> None,
     offset_negative |-> None, offset_hour |-> None, offset_minute |-> None]

NoDigits == [ok |-> FALSE, rest |-> <<>>, val |-> 0]

\* Between n and m digits, as many as there are.
n_to_m_digits(s, n, m) ==
    LET k == DigitRun(s, m) IN
    IF k < n THEN NoDigits
    ELSE [ok |-> TRUE, rest |-> Drop(s, k), val |-> DigitsValue(SubSeq(s, 1, k))]

\* Exactly n digits under zero padding, one to n digits when unpadded; under
\* space padding up to n - 1 spaces and then the digits that fill the width.
exactly_n_digits_padded(s, n, padding) ==
    CASE padding = "None" -> n_to_m_digits(s, 1, n)
      [] padding = "Space" ->
            LET pad_width == Cardinality({k \in 1..(n - 1) :
                                 k <= Len(s) /\ \A j \in 1..k : s[j] = " "})
            IN  n_to_m_digits(Drop(s, pad_width), n - pad_width, n - pad_width)
      [] OTHER -> n_to_m_digits(s, n, n)

\* first_match: the first of the names, in their order, that the input
\* starts with, letter case as written (0: none).
first_match(names, input) ==
    LET hits == {i \in 1..Len(names) : StartsWith(input, names[i])} IN
    IF hits = {} THEN 0 ELSE CHOOSE i \in hits : \A j \in hits : i <= j

\* A name of `names` read off the input, and stored in a field as the
\* number it stands for: the names stand for first, first + 1, ...
SetNamed(parsed, field, names, input, first) ==
    LET i == first_match(names, input) IN
    IF i = 0 THEN [ok |-> FALSE, rest |-> <<>>, parsed |-> parsed]
    ELSE [ok |-> TRUE, rest |-> Drop(input, Len(names[i])),
          parsed |-> [parsed EXCEPT ![field] = Some(first + i - 1)]]

Fail(parsed) == [ok |-> FALSE, rest |-> <<>>, parsed |-> parsed]

\* A parsed number stored in a field when it is within the field's range.
SetRanged(parsed, field, d, lo, hi) ==
    IF d.ok /\ d.val >= lo /\ d.val <= hi
    THEN [ok |-> TRUE, rest |-> d.rest, parsed |-> [parsed EXCEPT ![field] = Some(d.val)]]
    ELSE Fail(parsed)

\* A year of four digits with an optional sign, stored in `field`.
SetYear(parsed, field, input) ==
    LET signed == input # <<>> /\ input[1] \in {"+", "-"}
        d == exactly_n_digits_padded(IF signed THEN Tail(input) ELSE input, 4, "Zero")
    IN  IF ~d.ok THEN Fail(parsed)
        ELSE [ok |-> TRUE, rest |-> d.rest,
              parsed |-> [parsed EXCEPT ![field] =
                  Some(IF signed /\ input[1] = "-" THEN -d.val ELSE d.val)]]

\* Parsed::parse_component for the components the two compilers produce. A
\* weekday is kept as its number of days from Monday.
parse_component(parsed, c, input) ==
    CASE c.k = "Year" /\ c.mod = "Full" -> SetYear(parsed, "year", input)
      [] c.k = "Year" /\ c.mod = "LastTwo" ->
            SetRanged(parsed, "year_last_two", exactly_n_digits_padded(input, 2, "Zero"), 0, 99)
      [] c.k = "Year" /\ c.mod = "IsoFull" -> SetYear(parsed, "iso_year", input)
      [] c.k = "Year" /\ c.mod = "IsoLastTwo" ->
            SetRanged(parsed, "iso_year_last_two",
                      exactly_n_digits_padded(input, 2, "Zero"), 0, 99)
      [] c.k = "Month" /\ c.mod = "Short" ->
            SetNamed(parsed, "month", MonthNames, input, 1)
      [] c.k = "Month" /\ c.mod = "Long" ->
            SetNamed(parsed, "month", MonthLongNames, input, 1)
      [] c.k = "Month" /\ c.mod \in {"Zero", "None"} ->
            SetRanged(parsed, "month", exactly_n_digits_padded(input, 2, c.mod), 1, 12)
      [] c.k = "Ordinal" ->
            SetRanged(parsed, "ordinal", exactly_n_digits_padded(input, 3, "Zero"), 1, 366)
      [] c.k = "Day" ->
            SetRanged(parsed, "day", exactly_n_digits_padded(input, 2, c.mod), 1, 31)
      [] c.k = "Weekday" /\ c.mod = "Short" ->
            SetNamed(parsed, "weekday", WeekdayNames, input, 0)
      [] c.k = "Weekday" /\ c.mod = "Long" ->
            SetNamed(parsed, "weekday", WeekdayLongNames, input, 0)
      [] c.k = "Weekday" /\ c.mod = "Sunday0" ->
            \* one digit, 1 (Monday) to 6 (Saturday) and 0 (Sunday)
            SetNamed(parsed, "weekday",
                     <<<<"1">>, <<"2">>, <<"3">>, <<"4">>, <<"5">>, <<"6">>, <<"0">>>>, input, 0)
      [] c.k = "Weekday" /\ c.mod = "Monday1" ->
            \* one digit, 1 (Monday) to 7 (Sunday)
            SetNamed(parsed, "weekday",
                     <<<<"1">>, <<"2">>, <<"3">>, <<"4">>, <<"5">>, <<"6">>, <<"7">>>>, input, 0)
      [] c.k = "WeekNumber" /\ c.mod = "Sunday" ->
            SetRanged(parsed, "sunday_week_number",
                      exactly_n_digits_padded(input, 2, "Zero"), 0, 53)
      [] c.k = "WeekNumber" /\ c.mod = "Monday" ->
            SetRanged(parsed, "monday_week_number",
                      exactly_n_digits_padded(input, 2, "Zero"), 0, 53)
      [] c.k = "WeekNumber" /\ c.mod = "Iso" ->
            SetRanged(parsed, "iso_week_number",
                      exactly_n_digits_padded(input, 2, "Zero"), 1, 53)
      [] c.k = "Hour" /\ c.mod = "24" ->
            SetRanged(parsed, "hour_24", exactly_n_digits_padded(input, 2, "Zero"), 0, 23)
      [] c.k = "Hour" /\ c.mod = "12" ->
            SetRanged(parsed, "hour_12", exactly_n_digits_padded(input, 2, "Zero"), 1, 12)
      [] c.k = "Minute" ->
            SetRanged(parsed, "minute", exactly_n_digits_padded(input, 2, "Zero"), 0, 59)
      [] c.k = "Second" ->
            \* A leap second's 60 is taken here and refused by the conversion.
            SetRanged(parsed, "second", exactly_n_digits_padded(input, 2, "Zero"), 0, 60)
      [] c.k = "Subsecond" ->
            \* One digit or more: every digit is consumed, the first nine make
            \* the nanoseconds.
            LET n == DigitRun(input, Len(input))
                kept == IF n < 9 THEN n ELSE 9
            IN  IF n = 0 THEN Fail(parsed)
                ELSE [ok |-> TRUE, rest |-> Drop(input, n),
                      parsed |-> [parsed EXCEPT !.subsecond =
                          Some(DigitsValue(SubSeq(input, 1, kept)) * 10 ^ (9 - kept))]]
      [] c.k = "Period" ->
            IF StartsWith(input, <<"A", "M">>) \/ StartsWith(input, <<"P", "M">>)
            THEN [ok |-> TRUE, rest |-> Drop(input, 2),
                  parsed |-> [parsed EXCEPT !.hour_12_is_pm = Some(input[1] = "P")]]
            ELSE Fail(parsed)
      [] c.k = "OffsetHour" ->
            IF input # <<>> /\ input[1] \in {"+", "-"}
            THEN LET r == SetRanged(parsed, "offset_hour",
                                    exactly_n_digits_padded(Tail(input), 2, "Zero"), 0, 23)
                 IN  IF r.ok
                     THEN [r EXCEPT !.parsed.offset_negative = Some(input[1] = "-")]
                     ELSE r
            ELSE Fail(parsed)
      [] c.k = "OffsetMinute" ->
            SetRanged(parsed, "offset_minute", exactly_n_digits_padded(input, 2, "Zero"), 0, 59)

\* Parsed::parse_items: the items in order against the input; ends with the
\* unconsumed rest of the input, or fails at the first item that does not
\* match.
RECURSIVE parse_items(_, _, _)
parse_items(parsed, input, items) ==
    IF items = <<>> THEN [ok |-> TRUE, rest |-> input, parsed |-> parsed]
    ELSE LET it == Head(items) IN
         IF it.k = "Literal"
         THEN IF StartsWith(input, it.bytes)
              THEN parse_items(parsed, Drop(input, Len(it.bytes)), Tail(items))
              ELSE Fail(parsed)
         ELSE LET r == parse_component(parsed, it, input) IN
              IF r.ok THEN parse_items(r.parsed, r.rest, Tail(items)) ELSE r

(***************************************************************************)
(* From parsed fields to a date and a time (time's TryFrom<Parsed>)        *)
(***************************************************************************)
\* The build: whether it keeps the debug assertions (cfg(debug_assertions),
\* which the dev and test profiles set, dependencies included, and the
\* release profile does not). It is fixed when the program is built.
VARIABLE debug_assertions

\* Date::from_calendar_date: fails unless the day exists in that month.
from_calendar_date(y, m, d) ==
    IF y >= -9999 /\ y <= 9999 /\ m >= 1 /\ m <= 12
       /\ d >= 1 /\ d <= days_in_month(y, m)
    THEN Ok([year |-> y, month |-> m, day |-> d])
    ELSE Err("ComponentRange")

\* Date::__from_ordinal_date_unchecked: the date of day `ord` of year y,
\* neither of them checked. A build with debug assertions panics on a year
\* or a day out of range; a build without them makes the date.
from_ordinal_date_unchecked(y, ord) ==
    IF debug_assertions
       /\ ~(y >= -9999 /\ y <= 9999 /\ ord >= 1 /\ ord <= days_in_year(y))
    THEN Err("panicked")
    ELSE LET m == CHOOSE k \in 1..12 :
                      days_before_month(y, k) < ord /\ ord <= days_before_month(y, k + 1)
         IN  Ok([year |-> y, month |-> m, day |-> ord - days_before_month(y, m)])

\* Date::from_ordinal_date: fails unless the year has that day.
from_ordinal_date(y, ord) ==
    IF y >= -9999 /\ y <= 9999 /\ ord >= 1 /\ ord <= days_in_year(y)
    THEN from_ordinal_date_unchecked(y, ord)
    ELSE Err("ComponentRange")

\* Date::from_iso_week_date: the weekday (from Monday) of a week of an ISO
\* year, whose first week is the one that holds the 4th of January. The
\* year and the week are checked; the day may lie in the calendar year
\* before or after, and that year is not checked.
from_iso_week_date(y, week, weekday) ==
    IF ~(y >= -9999 /\ y <= 9999 /\ week >= 1 /\ week <= weeks_in_year(y))
    THEN Err("ComponentRange")
    ELSE LET jan_4 == number_days_from_monday(y, 4) + 4
             ord == week * 7 + (weekday + 1) - jan_4
         IN  IF ord <= 0
             THEN from_ordinal_date_unchecked(y - 1, ord + days_in_year(y - 1))
             ELSE IF ord > days_in_year(y)
             THEN from_ordinal_date_unchecked(y + 1, ord - days_in_year(y))
             ELSE from_ordinal_date_unchecked(y, ord)

\* fn adjustment(year) of TryFrom<Parsed> for Date, by the weekday of the
\* 1st of January: Monday 7, Tuesday 1, Wednesday 2, ... Sunday 6.
adjustment(y) ==
    LET jan_1 == number_days_from_monday(y, 1) IN
    IF jan_1 = 0 THEN 7 ELSE jan_1

\* TryFrom<Parsed> for Date: the first of these sets of fields that is
\* complete makes the date: the year and the day of the year; the year, the
\* month and the day; the ISO year, the ISO week and the weekday; the year,
\* the week counted from Sunday and the weekday; the year, the week counted
\* from Monday and the weekday. A year's last two digits alone give no year.
\* Both week countings take the day of the year as week * 7 + the weekday's
\* number (from Sunday, from Monday) - adjustment(year) + 1, cast to u16.
TryIntoDate(parsed) ==
    IF IsSome(parsed.year) /\ IsSome(parsed.ordinal)
    THEN from_ordinal_date(Unwrap(parsed.year), Unwrap(parsed.ordinal))
    ELSE IF IsSome(parsed.year) /\ IsSome(parsed.month) /\ IsSome(parsed.day)
    THEN from_calendar_date(Unwrap(parsed.year), Unwrap(parsed.month), Unwrap(parsed.day))
    ELSE IF IsSome(parsed.iso_year) /\ IsSome(parsed.iso_week_number)
            /\ IsSome(parsed.weekday)
    THEN from_iso_week_date(Unwrap(parsed.iso_year), Unwrap(parsed.iso_week_number),
                            Unwrap(parsed.weekday))
    ELSE IF IsSome(parsed.year) /\ IsSome(parsed.sunday_week_number)
            /\ IsSome(parsed.weekday)
    THEN from_ordinal_date(Unwrap(parsed.year),
            (Unwrap(parsed.sunday_week_number) * 7
                + number_days_from_sunday(Unwrap(parsed.weekday))
                - adjustment(Unwrap(parsed.year)) + 1) % (2 ^ 16))
    ELSE IF IsSome(parsed.year) /\ IsSome(parsed.monday_week_number)
            /\ IsSome(parsed.weekday)
    THEN from_ordinal_date(Unwrap(parsed.year),
            (Unwrap(parsed.monday_week_number) * 7
                + Unwrap(parsed.weekday)
                - adjustment(Unwrap(parsed.year)) + 1) % (2 ^ 16))
    ELSE Err("InsufficientInformation")

\* TryFrom<Parsed> for Time: the hour comes from the 24-hour field or from
\* the 12-hour field with its period; of the minute, the second and the
\* subsecond a finer one without the coarser ones is refused, and so is a
\* second of 60.
TryIntoTime(parsed) ==
    LET has_hour == IsSome(parsed.hour_24)
                    \/ (IsSome(parsed.hour_12) /\ IsSome(parsed.hour_12_is_pm))
        hour == IF IsSome(parsed.hour_24) THEN Unwrap(parsed.hour_24)
                ELSE (Unwrap(parsed.hour_12) % 12)
                     + (IF Unwrap(parsed.hour_12_is_pm) THEN 12 ELSE 0)
    IN  IF ~has_hour THEN Err("InsufficientInformation")
        ELSE IF \/ IsNone(parsed.minute) /\ IsSome(parsed.second)
                \/ IsNone(parsed.second) /\ IsSome(parsed.subsecond)
             THEN Err("InsufficientInformation")
        ELSE IF IsSome(parsed.second) /\ Unwrap(parsed.second) > 59
             THEN Err("ComponentRange")
        ELSE Ok([hour |-> hour,
                 minute |-> IF IsSome(parsed.minute) THEN Unwrap(parsed.minute) ELSE 0,
                 second |-> IF IsSome(parsed.second) THEN Unwrap(parsed.second) ELSE 0,
                 nanosecond |-> IF IsSome(parsed.subsecond)
                                THEN Unwrap(parsed.subsecond) ELSE 0])

\* A date and a time as one value with a UTC offset in minutes.
DateTime(date, time, offset) ==
    [year |-> date.year, month |-> date.month, day |-> date.day,
     hour |-> time.hour, minute |-> time.minute, second |-> time.second,
     nanosecond |-> time.nanosecond, offset |-> offset]

\* TryFrom<Parsed> for PrimitiveDateTime (offset 0 stands for "no offset").
TryIntoPrimitiveDateTime(parsed) ==
    LET date == TryIntoDate(parsed)
        time == TryIntoTime(parsed)
    IN  IF ~date.ok THEN date
        ELSE IF ~time.ok THEN time
        ELSE Ok(DateTime(date.val, time.val, 0))

\* TryFrom<Parsed> for UtcOffset, in minutes: the hour is needed, the minute
\* defaults to zero.
TryIntoUtcOffset(parsed) ==
    IF IsNone(parsed.offset_hour) THEN Err("InsufficientInformation")
    ELSE LET mins == Unwrap(parsed.offset_hour) * 60
                     + (IF IsSome(parsed.offset_minute)
                        THEN Unwrap(parsed.offset_minute) ELSE 0)
         IN  Ok(IF Unwrap(parsed.offset_negative) THEN -mins ELSE mins)

\* OffsetDateTime::parse(text, items): the whole text must match; the date,
\* the time and the offset all come from the text, and the result keeps the
\* offset that was parsed.
OffsetDateTimeParse(text, items) ==
    LET r == parse_items(ParsedNew, text, items) IN
    IF ~r.ok THEN Err("ParseFromDescription")
    ELSE IF r.rest # <<>> THEN Err("UnexpectedTrailingCharacters")
    ELSE LET dt == TryIntoPrimitiveDateTime(r.parsed)
             off == TryIntoUtcOffset(r.parsed)
         IN  IF ~dt.ok THEN dt
             ELSE IF ~off.ok THEN off
             ELSE Ok([dt.val EXCEPT !.offset = off.val])

(***************************************************************************)
(* Formatting (time::formatting)                                           *)
(***************************************************************************)
\* One item written for the fields f (year .. nanosecond, offset in minutes).
\* The names are looked up by the month's and the weekday's number within
\* their twelve and seven.
RenderItem(it, f) ==
    LET ord == ordinal(f.year, f.month, f.day)
        weekday == number_days_from_monday(f.year, ord)
        iso == to_iso_week_date(f.year, ord)
        trailing_zeros == Cardinality({j \in 1..8 : f.nanosecond % (10 ^ j) = 0})
    IN
    CASE it.k = "Literal" -> it.bytes
      [] it.k = "Year" /\ it.mod = "Full" ->
            (IF f.year < 0 THEN <<"-">> ELSE <<>>) \o format_number(Abs(f.year), 4, "Zero")
      [] it.k = "Year" /\ it.mod = "LastTwo" -> format_number(Abs(f.year) % 100, 2, "Zero")
      [] it.k = "Year" /\ it.mod = "IsoFull" ->
            (IF iso.year < 0 THEN <<"-">> ELSE <<>>) \o format_number(Abs(iso.year), 4, "Zero")
      [] it.k = "Year" /\ it.mod = "IsoLastTwo" ->
            format_number(Abs(iso.year) % 100, 2, "Zero")
      [] it.k = "Month" /\ it.mod = "Short" -> MonthNames[((f.month - 1) % 12) + 1]
      [] it.k = "Month" /\ it.mod = "Long" -> MonthLongNames[((f.month - 1) % 12) + 1]
      [] it.k = "Month" /\ it.mod \in {"Zero", "None"} -> format_number(f.month, 2, it.mod)
      [] it.k = "Ordinal" -> format_number(ord, 3, "Zero")
      [] it.k = "Day" -> format_number(f.day, 2, it.mod)
      [] it.k = "Weekday" /\ it.mod = "Short" -> WeekdayNames[weekday + 1]
      [] it.k = "Weekday" /\ it.mod = "Long" -> WeekdayLongNames[weekday + 1]
      [] it.k = "Weekday" /\ it.mod = "Sunday0" ->
            format_number(number_days_from_sunday(weekday), 1, "None")
      [] it.k = "Weekday" /\ it.mod = "Monday1" -> format_number(weekday + 1, 1, "None")
      [] it.k = "WeekNumber" /\ it.mod = "Sunday" ->
            format_number((ord - number_days_from_sunday(weekday) + 6) \div 7, 2, "Zero")
      [] it.k = "WeekNumber" /\ it.mod = "Monday" ->
            format_number((ord - weekday + 6) \div 7, 2, "Zero")
      [] it.k = "WeekNumber" /\ it.mod = "Iso" -> format_number(iso.week, 2, "Zero")
      [] it.k = "Hour" /\ it.mod = "24" -> format_number(f.hour, 2, "Zero")
      [] it.k = "Hour" /\ it.mod = "12" -> format_number(((f.hour + 11) % 12) + 1, 2, "Zero")
      [] it.k = "Minute" -> format_number(f.minute, 2, "Zero")
      [] it.k = "Second" -> format_number(f.second, 2, "Zero")
      [] it.k = "Subsecond" ->
            \* one digit or more: the nine digits without their trailing zeros
            format_number(f.nanosecond \div (10 ^ trailing_zeros), 9 - trailing_zeros, "Zero")
      [] it.k = "Period" -> IF f.hour >= 12 THEN <<"P", "M">> ELSE <<"A", "M">>
      [] it.k = "OffsetHour" ->
            (IF f.offset < 0 THEN <<"-">> ELSE <<"+">>)
                \o format_number(Abs(f.offset) \div 60, 2, "Zero")
      [] it.k = "OffsetMinute" -> format_number(Abs(f.offset) % 60, 2, "Zero")

\* The items written in order.
RECURSIVE Render(_, _)
Render(items, f) ==
    IF items = <<>> THEN <<>> ELSE RenderItem(Head(items), f) \o Render(Tail(items), f)

(***************************************************************************)
(* Compiling a strptime pattern (time_fmt's parse_to_format_item)          *)
(***************************************************************************)
\* The conversion specifiers of the strptime grammar that have items: the
\* single components, the composite ones (%c %D %F %r %R %T %x %X), and the
\* literal ones (%n %t %%).
ItemSpecifiers ==
    {"a", "A", "b", "B", "c", "d", "D", "e", "f", "F", "g", "G", "h", "H", "I", "j",
     "m", "M", "n", "p", "r", "R", "S", "t", "T", "u", "U", "V", "w", "W", "x", "X",
     "y", "Y", "z", "%"}

\* The specifiers of the grammar that no item stands for: the century and
\* the name of the time zone.
NoItemSpecifiers == {"C", "Z"}

MonthDayYearItems ==
    <<Component("Month", "Zero"), literal(<<"/">>), Component("Day", "Zero"),
      literal(<<"/">>), Component("Year", "LastTwo")>>

HourMinuteItems ==
    <<Component("Hour", "24"), literal(<<":">>), Component("Minute", "Zero")>>

SpecifierItems(c) ==
    CASE c = "a" -> <<Component("Weekday", "Short")>>
      [] c = "A" -> <<Component("Weekday", "Long")>>
      [] c \in {"b", "h"} -> <<Component("Month", "Short")>>
      [] c = "B" -> <<Component("Month", "Long")>>
      [] c = "c" -> <<Component("Weekday", "Short"), literal(<<" ">>),
                      Component("Month", "Short"), literal(<<" ">>),
                      Component("Day", "Space"), literal(<<" ">>)>>
                    \o HourMinuteItems
                    \o <<literal(<<":">>), Component("Second", "Zero"), literal(<<" ">>),
                         Component("Year", "Full")>>
      [] c = "d" -> <<Component("Day", "Zero")>>
      [] c \in {"D", "x"} -> MonthDayYearItems
      [] c = "e" -> <<Component("Day", "Space")>>
      [] c = "f" -> <<Component("Subsecond", "OneOrMore")>>
      [] c = "F" -> <<Component("Year", "Full"), literal(<<"-">>),
                      Component("Month", "Zero"), literal(<<"-">>),
                      Component("Day", "Zero")>>
      [] c = "g" -> <<Component("Year", "IsoLastTwo")>>
      [] c = "G" -> <<Component("Year", "IsoFull")>>
      [] c = "H" -> <<Component("Hour", "24")>>
      [] c = "I" -> <<Component("Hour", "12")>>
      [] c = "j" -> <<Component("Ordinal", "Zero")>>
      [] c = "m" -> <<Component("Month", "Zero")>>
      [] c = "M" -> <<Component("Minute", "Zero")>>
      [] c = "n" -> <<literal(<<"\n">>)>>
      [] c = "p" -> <<Component("Period", "Upper")>>
      [] c = "r" -> <<Component("Hour", "12"), literal(<<":">>),
                      Component("Minute", "Zero"), literal(<<":">>),
                      Component("Second", "Zero"), literal(<<" ">>),
                      Component("Period", "Upper")>>
      [] c = "R" -> HourMinuteItems
      [] c = "S" -> <<Component("Second", "Zero")>>
      [] c = "t" -> <<literal(<<"\t">>)>>
      [] c \in {"T", "X"} ->
            HourMinuteItems \o <<literal(<<":">>), Component("Second", "Zero")>>
      [] c = "u" -> <<Component("Weekday", "Monday1")>>
      [] c = "U" -> <<Component("WeekNumber", "Sunday")>>
      [] c = "V" -> <<Component("WeekNumber", "Iso")>>
      [] c = "w" -> <<Component("Weekday", "Sunday0")>>
      [] c = "W" -> <<Component("WeekNumber", "Monday")>>
      [] c = "y" -> <<Component("Year", "LastTwo")>>
      [] c = "Y" -> <<Component("Year", "Full")>>
      [] c = "z" -> <<Component("OffsetHour", "SignMandatory"),
                      Component("OffsetMinute", "Zero")>>
      [] c = "%" -> <<literal(<<"%">>)>>

\* The length of the run of characters before the next `%`.
RECURSIVE LiteralRun(_)
LiteralRun(s) == IF s = <<>> \/ Head(s) = "%" THEN 0 ELSE 1 + LiteralRun(Tail(s))

\* parse_to_format_item: literal runs become Literal items, each `%x` the
\* items of its specifier; a specifier without an item and a letter that is
\* no specifier are errors.
RECURSIVE parse_to_format_item(_)
parse_to_format_item(fmt) ==
    IF fmt = <<>> THEN Ok(<<>>)
    ELSE IF Head(fmt) # "%"
    THEN LET n == LiteralRun(fmt)
             rest == parse_to_format_item(Drop(fmt, n))
         IN  IF rest.ok THEN Ok(<<literal(SubSeq(fmt, 1, n))>> \o rest.val) ELSE rest
    ELSE IF Len(fmt) >= 2 /\ fmt[2] \in NoItemSpecifiers
    THEN Err("NoCorrespondingFormatItem")
    ELSE IF Len(fmt) < 2 \/ fmt[2] \notin ItemSpecifiers
    THEN Err("UnknownSpecifier")
    ELSE LET rest == parse_to_format_item(Drop(fmt, 2)) IN
         IF rest.ok THEN Ok(SpecifierItems(fmt[2]) \o rest.val) ELSE rest

(***************************************************************************)
(* StrptimeParser                                                          *)
(***************************************************************************)
\* An error message: its kind and the strings and the offset it quotes.
ErrMsg(kind, text, pattern, pos) ==
    [kind |-> kind, text |-> text, pattern |-> pattern, pos |-> pos]

\* An error of the time crate, turned into its text.
TimeError == ErrMsg("time", <<>>, <<>>, -1)

\* No error and no value: the call panicked and did not return.
Panicked == ErrMsg("panicked", <<>>, <<>>, -1)

\* What a caller of the time crate returns: the value, the error turned into
\* its text by `?` or map_err, or nothing when the crate panicked.
FromTime(r) ==
    IF r.ok THEN r ELSE IF r.err = "panicked" THEN Err(Panicked) ELSE Err(TimeError)

\* struct StrptimeParser.
StrptimeParser(strptime_format, with_timezone, items) ==
    [strptime_format |-> strptime_format, with_timezone |-> with_timezone, items |-> items]

\* from_strptime that keeps the lower-cased pattern it searched for `%z`.
from_strptime_StoresLower(strptime_format) ==
    LET compiled == parse_to_format_item(strptime_format) IN
    IF ~compiled.ok
    THEN Err(ErrMsg("invalid strptime format", <<>>, strptime_format, -1))
    ELSE Ok(StrptimeParser(to_lowercase(strptime_format),
                           Contains(to_lowercase(strptime_format), <<"%", "z">>),
                           compiled.val))

\* from_strptime that looks for `%z` in the pattern as it is written.
from_strptime_CaseSensitive(strptime_format) ==
    LET compiled == parse_to_format_item(strptime_format) IN
    IF ~compiled.ok
    THEN Err(ErrMsg("invalid strptime format", <<>>, strptime_format, -1))
    ELSE Ok(StrptimeParser(strptime_format,
                           Contains(strptime_format, <<"%", "z">>),
                           compiled.val))

\* StrptimeParser::from_strptime.
from_strptime(strptime_format) ==
    LET compiled == parse_to_format_item(strptime_format) IN
    IF ~compiled.ok
    THEN Err(ErrMsg("invalid strptime format", <<>>, strptime_format, -1))
    ELSE Ok(StrptimeParser(strptime_format,
                           Contains(to_lowercase(strptime_format), <<"%", "z">>),
                           compiled.val))

\* from_java_datetime_format whose error quotes the resolved pattern.
from_java_datetime_format_QuotesResolved(java_datetime_format) ==
    LET java_datetime_format_resolved ==
            resolve_java_datetime_format_alias(java_datetime_format)
        items == tokenize(java_datetime_format_resolved)
    IN  IF ~items.ok
        THEN Err(ErrMsg("failed to parse date format", <<>>,
                        java_datetime_format_resolved, items.err))
        ELSE Ok(StrptimeParser(java_datetime_format_resolved, FALSE, items.val))

\* from_java_datetime_format that keeps the pattern as it was given.
from_java_datetime_format_KeepsGiven(java_datetime_format) ==
    LET java_datetime_format_resolved ==
            resolve_java_datetime_format_alias(java_datetime_format)
        items == tokenize(java_datetime_format_resolved)
    IN  IF ~items.ok
        THEN Err(ErrMsg("failed to parse date format", <<>>, java_datetime_format, items.err))
        ELSE Ok(StrptimeParser(java_datetime_format, FALSE, items.val))

\* StrptimeParser::from_java_datetime_format: the alias is resolved, the
\* resolved pattern tokenized and kept; the error quotes the pattern as given.
from_java_datetime_format(java_datetime_format) ==
    LET java_datetime_format_resolved ==
            resolve_java_datetime_format_alias(java_datetime_format)
        items == tokenize(java_datetime_format_resolved)
    IN  IF ~items.ok
        THEN Err(ErrMsg("failed to parse date format", <<>>, java_datetime_format, items.err))
        ELSE Ok(StrptimeParser(java_datetime_format_resolved, FALSE, items.val))

\* impl PartialEq for StrptimeParser.
ParserEq(a, b) == a.strptime_format = b.strptime_format

\* infer_year with the three months ahead wrapped around the year's end.
infer_year_Wrapping(parsed_month_opt, this_month, this_year) ==
    IF IsNone(parsed_month_opt) THEN this_year
    ELSE IF Unwrap(parsed_month_opt) > ((this_month + 2) % 12) + 1 THEN this_year - 1
    ELSE this_year

\* fn infer_year.
infer_year(parsed_month_opt, this_month, this_year) ==
    IF IsNone(parsed_month_opt) THEN this_year
    ELSE IF Unwrap(parsed_month_opt) > this_month + 3 THEN this_year - 1
    ELSE this_year

\* The time completed in its hour only.
DefaultTime_HourOnly(parsed) ==
    IF IsNone(parsed.hour_24)
       /\ ~(IsSome(parsed.hour_12) /\ IsSome(parsed.hour_12_is_pm))
    THEN [parsed EXCEPT !.hour_24 = Some(0)]
    ELSE parsed

\* parse_primitive_date_time, the time completed: without an hour (24-hour,
\* or 12-hour with its period) the time is set to 00:00:00.
DefaultTime(parsed) ==
    IF IsNone(parsed.hour_24)
       /\ ~(IsSome(parsed.hour_12) /\ IsSome(parsed.hour_12_is_pm))
    THEN [parsed EXCEPT !.hour_24 = Some(0), !.minute = Some(0), !.second = Some(0)]
    ELSE parsed

\* parse_primitive_date_time, the year completed: without a year, the year
\* inferred from the parsed month and the current date.
DefaultYear(parsed, now) ==
    IF IsNone(parsed.year)
    THEN [parsed EXCEPT !.year = Some(infer_year(parsed.month, now.month, now.year))]
    ELSE parsed

\* parse_primitive_date_time without the check for unconsumed text.
parse_primitive_date_time_NoLeftoverCheck(self, date_time_str, now) ==
    LET r == parse_items(ParsedNew, date_time_str, self.items) IN
    IF ~r.ok THEN Err(TimeError)
    ELSE LET date_time == TryIntoPrimitiveDateTime(DefaultYear(DefaultTime(r.parsed), now))
         IN  FromTime(date_time)

\* StrptimeParser::parse_primitive_date_time.
parse_primitive_date_time(self, date_time_str, now) ==
    LET r == parse_items(ParsedNew, date_time_str, self.items) IN
    IF ~r.ok THEN Err(TimeError)
    ELSE IF r.rest # <<>>
    THEN Err(ErrMsg("does not match strptime format", date_time_str,
                    self.strptime_format, -1))
    ELSE LET date_time == TryIntoPrimitiveDateTime(DefaultYear(DefaultTime(r.parsed), now))
         IN  FromTime(date_time)

\* StrptimeParser::parse_date_time.
parse_date_time(self, date_time_str, now) ==
    IF self.with_timezone
    THEN FromTime(OffsetDateTimeParse(date_time_str, self.items))
    ELSE parse_primitive_date_time(self, date_time_str, now)

\* StrptimeParser::format_date_time.
format_date_time(self, date_time) == Ok(Render(self.items, date_time))

(***************************************************************************)
(* DateTimeInputFormat and DateTimeOutputFormat                            *)
(***************************************************************************)
S_iso8601 == <<"i", "s", "o", "8", "6", "0", "1">>
S_rfc2822 == <<"r", "f", "c", "2", "8", "2", "2">>
S_rfc3339 == <<"r", "f", "c", "3", "3", "3", "9">>
S_unix_timestamp == <<"u", "n", "i", "x", "_", "t", "i", "m", "e", "s", "t", "a", "m", "p">>
S_unix_timestamp_secs == <<"u", "n", "i", "x", "_", "t", "i", "m", "e", "s", "t", "a", "m", "p", "_", "s", "e", "c", "s">>
S_unix_timestamp_millis == <<"u", "n", "i", "x", "_", "t", "i", "m", "e", "s", "t", "a", "m", "p", "_", "m", "i", "l", "l", "i", "s">>
S_unix_timestamp_micros == <<"u", "n", "i", "x", "_", "t", "i", "m", "e", "s", "t", "a", "m", "p", "_", "m", "i", "c", "r", "o", "s">>
S_unix_timestamp_nanos == <<"u", "n", "i", "x", "_", "t", "i", "m", "e", "s", "t", "a", "m", "p", "_", "n", "a", "n", "o", "s">>

\* const STRFTIME_FORMAT_MARKERS: the letters of the 36 two-character markers.
STRFTIME_FORMAT_MARKERS ==
    {"a", "A", "b", "B", "c", "C", "d", "D", "e", "f", "F", "h", "H", "I", "j", "k",
     "l", "m", "M", "n", "p", "P", "r", "R", "S", "t", "T", "U", "w", "W", "x", "X",
     "y", "Y", "z", "Z"}

\* is_strftime_formatting that looks for the `%` alone.
is_strftime_formatting_PercentOnly(format_str) == Contains(format_str, <<"%">>)

\* fn is_strftime_formatting: whether the string contains any marker.
is_strftime_formatting(format_str) ==
    \E marker \in STRFTIME_FORMAT_MARKERS : Contains(format_str, <<"%", marker>>)

\* A format value: its variant and, for Strptime, the parser it carries.
Format(variant) == [variant |-> variant, parser |-> None]
Strptime(parser) == [variant |-> "Strptime", parser |-> Some(parser)]

\* derive(PartialEq) on the two enums: the same variant, and equal parsers.
FormatEq(a, b) ==
    /\ a.variant = b.variant
    /\ a.variant = "Strptime" => ParserEq(Unwrap(a.parser), Unwrap(b.parser))

\* The outcome of from_str, with whether from_strptime was called on the way.
Outcome(r, compile_attempted) ==
    IF r.ok
    THEN [ok |-> TRUE, val |-> r.val, compile_attempted |-> compile_attempted]
    ELSE [ok |-> FALSE, err |-> r.err, compile_attempted |-> compile_attempted]

\* The custom arm of both from_str: no marker, no compilation.
CustomFormat(kind, date_time_format_str) ==
    IF ~is_strftime_formatting(date_time_format_str)
    THEN Outcome(Err(ErrMsg(kind, <<>>, date_time_format_str, -1)), FALSE)
    ELSE LET r == from_strptime(date_time_format_str) IN
         Outcome(IF r.ok THEN Ok(Strptime(r.val)) ELSE r, TRUE)

\* DateTimeInputFormat::as_str.
InputAsStr(format) ==
    CASE format.variant = "Iso8601" -> S_iso8601
      [] format.variant = "Rfc2822" -> S_rfc2822
      [] format.variant = "Rfc3339" -> S_rfc3339
      [] format.variant = "Strptime" -> Unwrap(format.parser).strptime_format
      [] format.variant = "Timestamp" -> S_unix_timestamp

\* impl FromStr for DateTimeInputFormat.
InputFromStr(date_time_format_str) ==
    LET lower == to_lowercase(date_time_format_str) IN
    CASE lower = S_iso8601 -> Outcome(Ok(Format("Iso8601")), FALSE)
      [] lower = S_rfc2822 -> Outcome(Ok(Format("Rfc2822")), FALSE)
      [] lower = S_rfc3339 -> Outcome(Ok(Format("Rfc3339")), FALSE)
      [] lower = S_unix_timestamp -> Outcome(Ok(Format("Timestamp")), FALSE)
      [] OTHER -> CustomFormat("unknown input format", date_time_format_str)

\* DateTimeOutputFormat::as_str.
OutputAsStr(format) ==
    CASE format.variant = "Iso8601" -> S_iso8601
      [] format.variant = "Rfc2822" -> S_rfc2822
      [] format.variant = "Rfc3339" -> S_rfc3339
      [] format.variant = "Strptime" -> Unwrap(format.parser).strptime_format
      [] format.variant = "TimestampSecs" -> S_unix_timestamp_secs
      [] format.variant = "TimestampMillis" -> S_unix_timestamp_millis
      [] format.variant = "TimestampMicros" -> S_unix_timestamp_micros
      [] format.variant = "TimestampNanos" -> S_unix_timestamp_nanos

\* impl FromStr for DateTimeOutputFormat.
OutputFromStr(date_time_format_str) ==
    LET lower == to_lowercase(date_time_format_str) IN
    CASE lower = S_iso8601 -> Outcome(Ok(Format("Iso8601")), FALSE)
      [] lower = S_rfc2822 -> Outcome(Ok(Format("Rfc2822")), FALSE)
      [] lower = S_rfc3339 -> Outcome(Ok(Format("Rfc3339")), FALSE)
      [] lower = S_unix_timestamp_secs -> Outcome(Ok(Format("TimestampSecs")), FALSE)
      [] lower = S_unix_timestamp_millis -> Outcome(Ok(Format("TimestampMillis")), FALSE)
      [] lower = S_unix_timestamp_micros -> Outcome(Ok(Format("TimestampMicros")), FALSE)
      [] lower = S_unix_timestamp_nanos -> Outcome(Ok(Format("TimestampNanos")), FALSE)
      [] OTHER -> CustomFormat("unknown output format", date_time_format_str)

(***************************************************************************)
(* Rendering to a JSON value (format_to_json)                              *)
(***************************************************************************)
\* A TantivyDateTime at a whole second: the days since 1970-01-01 and the
\* second of the day. Its 64-bit count of nanoseconds is kept as this pair,
\* the count itself being (days * 86400 + secs) * 10^9.
TantivyDateTime(days, secs) == [days |-> days, secs |-> secs]

\* The civil date of a day count (proleptic Gregorian calendar).
civil_from_days(days) ==
    LET z == days + 719468
        era == z \div 146097
        doe == z - era * 146097
        yoe == (doe - doe \div 1460 + doe \div 36524 - doe \div 146096) \div 365
        doy == doe - (365 * yoe + yoe \div 4 - yoe \div 100)
        mp == (5 * doy + 2) \div 153
        m == IF mp < 10 THEN mp + 3 ELSE mp - 9
    IN  [year |-> yoe + era * 400 + (IF m <= 2 THEN 1 ELSE 0),
         month |-> m,
         day |-> doy - (153 * mp + 2) \div 5 + 1]

\* TantivyDateTime::into_utc: the date and the time of day, at offset zero.
into_utc(date_time) ==
    LET date == civil_from_days(date_time.days) IN
    [year |-> date.year, month |-> date.month, day |-> date.day,
     hour |-> date_time.secs \div 3600, minute |-> (date_time.secs \div 60) % 60,
     second |-> date_time.secs % 60, nanosecond |-> 0, offset |-> 0]

\* TantivyDateTime::into_timestamp_secs, _millis, _micros and _nanos: the
\* 64-bit count of the units of which there are per_second in a second, kept
\* as the whole seconds and the factor.
into_timestamp(date_time, per_second) ==
    [days |-> date_time.days, secs |-> date_time.secs, per_second |-> per_second]

\* serde_json's Value::String and Value::Number of an i64.
JsonString(s) == [type |-> "String", s |-> s]
JsonNumber(n) == [type |-> "Number", integer |-> TRUE, n |-> n]

\* The date and the time of day as the three standards share them.
DateText(f) ==
    format_number(f.year, 4, "Zero") \o <<"-">> \o format_number(f.month, 2, "Zero")
        \o <<"-">> \o format_number(f.day, 2, "Zero")
TimeText(f) ==
    format_number(f.hour, 2, "Zero") \o <<":">> \o format_number(f.minute, 2, "Zero")
        \o <<":">> \o format_number(f.second, 2, "Zero")

\* date.format(&Rfc3339) of a UTC date at a whole second: years 0 to 9999.
FormatRfc3339(f) ==
    IF f.year \notin 0..9999 THEN Err("InvalidComponent(year)")
    ELSE Ok(DateText(f) \o <<"T">> \o TimeText(f) \o <<"Z">>)

\* date.format(&Iso8601::DEFAULT): nine decimals of the second.
FormatIso8601(f) ==
    IF f.year \notin 0..9999 THEN Err("InvalidComponent(year)")
    ELSE Ok(DateText(f) \o <<"T">> \o TimeText(f)
            \o <<".", "0", "0", "0", "0", "0", "0", "0", "0", "0", "Z">>)

\* date.format(&Rfc2822): no year before 1900.
FormatRfc2822(f, days) ==
    IF f.year < 1900 THEN Err("InvalidComponent(year)")
    ELSE Ok(WeekdayNames[((days + 3) % 7) + 1] \o <<",", " ">>
            \o format_number(f.day, 2, "Zero") \o <<" ">> \o MonthNames[f.month] \o <<" ">>
            \o format_number(f.year, 4, "Zero") \o <<" ">> \o TimeText(f)
            \o <<" ", "+", "0", "0", "0", "0">>)

\* Result::map(JsonValue::String) and map_err(to_string).
MapJsonString(r) == IF r.ok THEN Ok(JsonString(r.val)) ELSE r

\* format_to_json with the raw timestamps written as strings.
format_to_json_NumbersAsText(self, date_time) ==
    LET date == into_utc(date_time) IN
    CASE self.variant = "Rfc3339" -> MapJsonString(FormatRfc3339(date))
      [] self.variant = "Iso8601" -> MapJsonString(FormatIso8601(date))
      [] self.variant = "Rfc2822" -> MapJsonString(FormatRfc2822(date, date_time.days))
      [] self.variant = "Strptime" ->
            MapJsonString(format_date_time(Unwrap(self.parser), date))
      [] OTHER -> MapJsonString(Ok(NumStr(Abs(date_time.days))))

\* DateTimeOutputFormat::format_to_json.
format_to_json(self, date_time) ==
    LET date == into_utc(date_time) IN
    CASE self.variant = "Rfc3339" -> MapJsonString(FormatRfc3339(date))
      [] self.variant = "Iso8601" -> MapJsonString(FormatIso8601(date))
      [] self.variant = "Rfc2822" -> MapJsonString(FormatRfc2822(date, date_time.days))
      [] self.variant = "Strptime" ->
            MapJsonString(format_date_time(Unwrap(self.parser), date))
      [] self.variant = "TimestampSecs" -> Ok(JsonNumber(into_timestamp(date_time, 1)))
      [] self.variant = "TimestampMillis" -> Ok(JsonNumber(into_timestamp(date_time, 1000)))
      [] self.variant = "TimestampMicros" ->
            Ok(JsonNumber(into_timestamp(date_time, 1000000)))
      [] self.variant = "TimestampNanos" ->
            Ok(JsonNumber(into_timestamp(date_time, 1000000000)))

(***************************************************************************)
(* The inputs the model draws                                              *)
(***************************************************************************)
\* The patterns given to from_strptime.
StrptimePatterns ==
    {<<"%", "Y", "-", "%", "m", "-", "%", "d">>,   \* %Y-%m-%d
     <<"%", "Y", "-", "%", "m", "-", "%", "d", " ", "%", "H", ":", "%", "M", ":", "%", "S">>,   \* %Y-%m-%d %H:%M:%S
     <<"%", "Y", "-", "%", "m", "-", "%", "d", "T", "%", "H">>,   \* %Y-%m-%dT%H
     <<"%", "Y", "-", "%", "m", "-", "%", "d", " ", "%", "H", ":", "%", "M">>,   \* %Y-%m-%d %H:%M
     <<"%", "Y", "-", "%", "m", "-", "%", "d", " ", "%", "H", " ", "%", "S">>,   \* %Y-%m-%d %H %S
     <<"%", "Y", "-", "%", "m", "-", "%", "d", " ", "%", "I", ":", "%", "M", " ", "%", "p">>,   \* %Y-%m-%d %I:%M %p
     <<"%", "Y", "-", "%", "m", "-", "%", "d", " ", "%", "I", ":", "%", "M">>,   \* %Y-%m-%d %I:%M
     <<"%", "m", "-", "%", "d", " ", "%", "M", ":", "%", "S">>,   \* %m-%d %M:%S
     <<"%", "m", "-", "%", "d">>,   \* %m-%d
     <<"%", "y", "-", "%", "m", "-", "%", "d">>,   \* %y-%m-%d
     <<"%", "Y", "-", "%", "m">>,   \* %Y-%m
     <<"%", "Y", "%", "m", "%", "d">>,   \* %Y%m%d
     <<"%", "F", " ", "%", "T">>,   \* %F %T
     <<"%", "Y", "-", "%", "m", "-", "%", "d", " ", "%", "H", ":", "%", "M", ":", "%", "S", " ", "%", "z">>,   \* %Y-%m-%d %H:%M:%S %z
     <<"%", "Y", "-", "%", "m", "-", "%", "d", " ", "%", "%", "z">>,   \* %Y-%m-%d %%z
     <<"%", "Y", "-", "%", "v">>,   \* %Y-%v
     <<"y", "y", "y", "y", "M", "M", "d", "d">>,   \* yyyyMMdd
     <<"b", "a", "s", "i", "c", "_", "d", "a", "t", "e">>,   \* basic_date
     <<"%", "Y", "-", "%", "m", "-", "%", "d", " ", "%", "j">>,   \* %Y-%m-%d %j
     <<"%", "Y", "-", "%", "j">>,   \* %Y-%j
     <<"%", "a", " ", "%", "b", " ", "%", "e", " ", "%", "Y">>,   \* %a %b %e %Y
     <<"%", "A", ",", " ", "%", "B", " ", "%", "d", " ", "%", "Y">>,   \* %A, %B %d %Y
     <<"%", "Y", " ", "%", "U", " ", "%", "w">>,   \* %Y %U %w
     <<"%", "Y", " ", "%", "W", " ", "%", "u">>,   \* %Y %W %u
     <<"%", "G", "-", "W", "%", "V", "-", "%", "u">>,   \* %G-W%V-%u
     <<"%", "g", "-", "W", "%", "V", "-", "%", "u">>,   \* %g-W%V-%u
     <<"%", "Y", "-", "%", "m", "-", "%", "d", " ", "%", "H", ":", "%", "M", ":", "%", "S", ".", "%", "f">>,   \* %Y-%m-%d %H:%M:%S.%f
     <<"%", "Y", "-", "%", "m", "-", "%", "d", " ", "%", "f">>,   \* %Y-%m-%d %f
     <<"%", "c">>,   \* %c
     <<"%", "D", " ", "%", "R">>,   \* %D %R
     <<"%", "x", " ", "%", "r">>,   \* %x %r
     <<"%", "Y", "-", "%", "m", "-", "%", "d", "%", "t", "%", "X">>,   \* %Y-%m-%d%t%X
     <<"%", "h", " ", "%", "d", "%", "n", "%", "Y">>,   \* %h %d%n%Y
     <<"%", "Y", "-", "%", "m", "-", "%", "d", " ", "%", "%", "Z">>,   \* %Y-%m-%d %%Z
     <<"%", "Y", "-", "%", "m", "-", "%", "d", " ", "%", "Z">>,   \* %Y-%m-%d %Z
     <<"%", "C", "%", "y", "-", "%", "m", "-", "%", "d">>,   \* %C%y-%m-%d
     <<"%", "Y", "-", "%", "m", "-", "%", "d", " ", "%", "k">>   \* %Y-%m-%d %k
    }

\* The patterns given to from_java_datetime_format.
JavaPatterns ==
    {<<"y", "y", "y", "y", " ", "M", "M", " ", "d", "d">>,   \* yyyy MM dd
     <<"y", "y", "y", "y", "!", "M", "M", "?", "d", "d">>,   \* yyyy!MM?dd
     <<"y", "y", "y", "y", "-", "M", "M", "-", "d", "d">>,   \* yyyy-MM-dd
     <<"d", "d", ".", "M", "M", ".", "y", "y", "y", "y">>,   \* dd.MM.yyyy
     <<"y", "y", "y", "y", "-", "M", "-", "d">>,   \* yyyy-M-d
     <<"y", "y", "-", "M", "M", "-", "d", "d">>,   \* yy-MM-dd
     <<"M", "M", "-", "d", "d">>,   \* MM-dd
     <<"y", "y", "y", "y", "M", "M", "d", "d">>,   \* yyyyMMdd
     <<"b", "a", "s", "i", "c", "_", "d", "a", "t", "e">>,   \* basic_date
     <<"d", "a", "t", "e", "_", "o", "p", "t", "i", "o", "n", "a", "l", "_", "t", "i", "m", "e">>,   \* date_optional_time
     <<"s", "t", "r", "i", "c", "t", "_", "d", "a", "t", "e", "_", "o", "p", "t", "i", "o", "n", "a", "l", "_", "t", "i", "m", "e">>,   \* strict_date_optional_time
     <<"s", "t", "r", "i", "c", "t", "_", "d", "a", "t", "e", "_", "o", "p", "t", "i", "o", "n", "a", "l", "_", "t", "i", "m", "e", "_", "n", "a", "n", "o", "s">>,   \* strict_date_optional_time_nanos
     <<"y", "y", "y", "y", "_", "M", "M", "_", "d", "d">>,   \* yyyy_MM_dd
     <<"y", "-", "M", "M", "-", "d", "d">>,   \* y-MM-dd
     <<"y", "y", "y", "y", "-", "M", "M", "-", "d", "d", "'", "T", "'">>,   \* yyyy-MM-dd'T'
     <<"d", "d", "'", "'", "M", "M">>   \* dd''MM
    }

\* The strings given to the two from_str.
FormatStrings ==
    {<<"i", "s", "o", "8", "6", "0", "1">>,   \* iso8601
     <<"I", "S", "O", "8", "6", "0", "1">>,   \* ISO8601
     <<"I", "s", "o", "8", "6", "0", "1">>,   \* Iso8601
     <<"r", "f", "c", "2", "8", "2", "2">>,   \* rfc2822
     <<"R", "F", "C", "2", "8", "2", "2">>,   \* RFC2822
     <<"r", "f", "c", "3", "3", "3", "9">>,   \* rfc3339
     <<"R", "f", "c", "3", "3", "3", "9">>,   \* Rfc3339
     <<"u", "n", "i", "x", "_", "t", "i", "m", "e", "s", "t", "a", "m", "p">>,   \* unix_timestamp
     <<"U", "N", "I", "X", "_", "T", "I", "M", "E", "S", "T", "A", "M", "P">>,   \* UNIX_TIMESTAMP
     <<"u", "n", "i", "x", "_", "t", "i", "m", "e", "s", "t", "a", "m", "p", "_", "s", "e", "c", "s">>,   \* unix_timestamp_secs
     <<"U", "n", "i", "x", "_", "T", "i", "m", "e", "s", "t", "a", "m", "p", "_", "S", "e", "c", "s">>,   \* Unix_Timestamp_Secs
     <<"u", "n", "i", "x", "_", "t", "i", "m", "e", "s", "t", "a", "m", "p", "_", "m", "i", "l", "l", "i", "s">>,   \* unix_timestamp_millis
     <<"u", "n", "i", "x", "_", "t", "i", "m", "e", "s", "t", "a", "m", "p", "_", "m", "i", "c", "r", "o", "s">>,   \* unix_timestamp_micros
     <<"U", "N", "I", "X", "_", "T", "I", "M", "E", "S", "T", "A", "M", "P", "_", "M", "I", "C", "R", "O", "S">>,   \* UNIX_TIMESTAMP_MICROS
     <<"u", "n", "i", "x", "_", "t", "i", "m", "e", "s", "t", "a", "m", "p", "_", "n", "a", "n", "o", "s">>,   \* unix_timestamp_nanos
     <<"u", "n", "i", "x", "_", "t", "i", "m", "e", "s", "t", "a", "m", "p", "_", "s", "e", "c", "o", "n", "d", "s">>,   \* unix_timestamp_seconds
     <<"t", "e", "s", "t", "%">>,   \* test%
     <<"t", "e", "s", "t", "-", "%", "v">>,   \* test-%v
     <<"t", "e", "s", "t", "-", "%", "q">>,   \* test-%q
     <<"T", "E", "S", "T">>,   \* TEST
     <<>>,   \* (empty)
     <<"%", "y">>,   \* %y
     <<"%", "Y", "-", "%", "m", "-", "%", "d">>,   \* %Y-%m-%d
     <<"%", "Y", "-", "%", "m", "-", "%", "d", " ", "%", "H", ":", "%", "M", ":", "%", "S">>,   \* %Y-%m-%d %H:%M:%S
     <<"%", "Y", "-", "%", "v">>,   \* %Y-%v
     <<"%", "F", " ", "%", "T">>,   \* %F %T
     <<"%", "d", "/", "%", "m", "/", "%", "Y", " ", "%", "I", ":", "%", "M", " ", "%", "p">>,   \* %d/%m/%Y %I:%M %p
     <<"%", "y", "%", "m", "%", "d">>,   \* %y%m%d
     <<"%", "Y", " ", "%", "z">>,   \* %Y %z
     <<"r", "f", "c", "3", "3", "3", "9", " ", "%", "Y">>,   \* rfc3339 %Y
     <<"I", "S", "O", "8", "6", "0", "1", "-", "%", "d">>,   \* ISO8601-%d
     <<"%", "%", "Y">>   \* %%Y
    }

\* The pieces Java-style patterns are put together from, and how many of
\* them at most.
JavaPieces ==
    {<<"y", "y", "y", "y">>, <<"y", "y">>, <<"y">>, <<"M", "M">>, <<"M">>,
     <<"d", "d">>, <<"d">>, <<"-">>, <<"!">>, <<"_">>, <<QUOTE>>, <<"T">>, <<"[">>}
MaxPieces == 3

PiecePatterns ==
    UNION {{Concat(f) : f \in [1..n -> JavaPieces]} : n \in 0..MaxPieces}

\* The date and time fields the texts to parse are written from: existing
\* dates, dates that do not exist, times of day, a second of 60, an offset
\* of 24 hours and a fraction of a second.
Fields(y, mo, d, h, mi, s, off) ==
    [year |-> y, month |-> mo, day |-> d, hour |-> h, minute |-> mi, second |-> s,
     nanosecond |-> 0, offset |-> off]

FieldChoices ==
    {Fields(2021, 1, 1, 0, 0, 0, 0),
     Fields(2021, 4, 30, 13, 45, 59, 0),
     Fields(2021, 4, 31, 13, 45, 59, 0),
     Fields(2024, 2, 29, 12, 5, 7, 330),
     Fields(2021, 2, 29, 0, 30, 15, 0),
     Fields(2021, 12, 31, 23, 59, 59, -480),
     Fields(2021, 13, 1, 5, 0, 0, 0),
     Fields(2021, 6, 15, 24, 0, 0, 0),
     Fields(1000, 1, 1, 0, 0, 0, 0),
     Fields(9999, 12, 31, 0, 0, 0, 0),
     Fields(2021, 4, 30, 13, 45, 60, 0),
     Fields(2021, 12, 31, 23, 59, 59, 1440),
     [Fields(2021, 4, 5, 13, 45, 59, 0) EXCEPT !.nanosecond = 120000000]}

\* The instants given to format_date_time: the fields an OffsetDateTime can
\* be built from, so an existing date, a time of day and an offset of less
\* than 26 hours (wider than the offsets a text is parsed with).
DateTimes ==
    {f \in FieldChoices :
        /\ from_calendar_date(f.year, f.month, f.day).ok
        /\ f.hour < 24 /\ f.minute < 60 /\ f.second < 60 /\ f.nanosecond < 10 ^ 9
        /\ Abs(f.offset) < 26 * 60}

\* What may follow the written fields in a text.
Suffixes == {<<>>, <<"T", "A", "B", "C">>, <<"7">>}

\* Texts that are written from no fields; the last one names, by its ISO
\* week, the 1st of January of the year 10000.
FixedTexts ==
    {<<>>, <<"2", "0", "2", "1", "-", "0", "1", "-", "0", "1", "T", "A", "B", "C">>,
     <<"9", "9", "9", "9", "-", "W", "5", "2", "-", "6">>}

\* The texts given to a parser: the fields written the parser's own way,
\* with and without a suffix, and the fixed texts.
TextsFor(self) ==
    {Render(self.items, f) \o suffix : f \in FieldChoices, suffix \in Suffixes}
        \cup FixedTexts

\* The clock: the year and the month it starts in, and for how many months
\* it runs on.
ClockFirstYear == 2024
ClockFirstMonth == 8
ClockMonths == 3

(***************************************************************************)
(* The state machine                                                       *)
(***************************************************************************)
VARIABLES
    parsers,    \* the compiled patterns the callers hold, by slot
    origin,     \* for each held pattern, the front-end and the string it was made from
    now,        \* the current UTC date: its year and month
    call,       \* the last call: its arguments and what it returned
    input,      \* the argument a pure function is about to be applied to
    threads     \* for each thread, the call it is in: where it stands and its locals

vars == <<parsers, origin, now, call, input, threads, debug_assertions>>

Threads == {"t1", "t2"}

\* A thread that is in no call.
Idle == [pc |-> "idle"]

Slots == {"a", "b"}

NoInput == [kind |-> "none"]

InitCommon ==
    /\ parsers = [s \in Slots |-> None]
    /\ origin = [s \in Slots |-> None]
    /\ now = [year |-> ClockFirstYear, month |-> ClockFirstMonth]
    /\ call = [op |-> "init"]
    /\ threads = [t \in Threads |-> Idle]
    /\ debug_assertions \in BOOLEAN

Init ==
    /\ InitCommon
    /\ input = NoInput

\* A compilation's result kept in a slot when it succeeded; a slot is filled
\* once, a StrptimeParser does not change after it is made.
Keep(slot, frontend, pattern, r) ==
    /\ IsNone(parsers[slot])
    /\ parsers' = IF r.ok THEN [parsers EXCEPT ![slot] = Some(r.val)] ELSE parsers
    /\ origin' = IF r.ok
                 THEN [origin EXCEPT ![slot] = Some([frontend |-> frontend, pattern |-> pattern])]
                 ELSE origin

\* StrptimeParser::from_strptime(pattern), the parser kept in `slot`.
FromStrptime(slot, pattern) ==
    LET r == from_strptime(pattern) IN
    /\ Keep(slot, "strptime", pattern, r)
    /\ call' = [op |-> "from_strptime", slot |-> slot, pattern |-> pattern, result |-> r]
    /\ UNCHANGED <<now, input, threads, debug_assertions>>

\* StrptimeParser::from_java_datetime_format(pattern), the parser kept in
\* `slot`. The call keeps, beside the result, the resolved pattern and the
\* tokenizer's run over it: the spans it consumed and the tokens it built.
FromJavaCall(slot, pattern) ==
    LET r == from_java_datetime_format(pattern)
        resolved == resolve_java_datetime_format_alias(pattern)
        run == tokenize(resolved)
    IN
    /\ Keep(slot, "java", pattern, r)
    /\ call' = [op |-> "from_java_datetime_format", slot |-> slot, pattern |-> pattern,
                resolved |-> resolved, spans |-> run.spans, tokens |-> run.tokens,
                result |-> r]
    /\ UNCHANGED <<now, threads, debug_assertions>>

FromJava(slot, pattern) ==
    /\ FromJavaCall(slot, pattern)
    /\ UNCHANGED input

\* parse_date_time(text) on the parser in `slot`, at the current date.
ParseDateTime(slot, text) ==
    /\ IsSome(parsers[slot])
    /\ call' = [op |-> "parse_date_time", self |-> Unwrap(parsers[slot]), text |-> text,
                now |-> now, result |-> parse_date_time(Unwrap(parsers[slot]), text, now)]
    /\ UNCHANGED <<parsers, origin, now, input, threads, debug_assertions>>

\* format_date_time(date_time) on the parser in `slot`.
FormatDateTime(slot, date_time) ==
    /\ IsSome(parsers[slot])
    /\ call' = [op |-> "format_date_time", self |-> Unwrap(parsers[slot]),
                date_time |-> date_time,
                result |-> format_date_time(Unwrap(parsers[slot]), date_time)]
    /\ UNCHANGED <<parsers, origin, now, input, threads, debug_assertions>>

\* The clock moves on to the next month.
Tick ==
    /\ (now.year - ClockFirstYear) * 12 + now.month - ClockFirstMonth < ClockMonths
    /\ now' = IF now.month < 12 THEN [now EXCEPT !.month = @ + 1]
              ELSE [year |-> now.year + 1, month |-> 1]
    /\ call' = [op |-> "tick"]
    /\ UNCHANGED <<parsers, origin, input, threads, debug_assertions>>

\* One caller: it compiles a pattern, and parses and formats with the
\* pattern it holds, while the clock runs.
Next ==
    \/ \E pattern \in StrptimePatterns : FromStrptime("a", pattern)
    \/ \E pattern \in JavaPatterns : FromJava("a", pattern)
    \/ \E text \in (IF IsSome(parsers["a"]) THEN TextsFor(Unwrap(parsers["a"])) ELSE {}) :
            ParseDateTime("a", text)
    \/ \E date_time \in DateTimes : FormatDateTime("a", date_time)
    \/ Tick

Spec == Init /\ [][Next]_vars

(***************************************************************************)
(* Two callers, each compiling a pattern of its own                        *)
(***************************************************************************)
NextEq ==
    \/ \E slot \in Slots, pattern \in StrptimePatterns : FromStrptime(slot, pattern)
    \/ \E slot \in Slots, pattern \in JavaPatterns : FromJava(slot, pattern)

SpecEq == Init /\ [][NextEq]_vars

(***************************************************************************)
(* The pure functions, each applied to an argument drawn at the start      *)
(***************************************************************************)
\* The years infer_year is given: the ends of the calendar and years between.
InferYears == {-9999, -1, 0, 1, 2023, 2024, 9999}

OptionalMonths == {None} \cup {Some(m) : m \in 1..12}

\* The output formats format_to_json is called on, as from_str makes them.
OutputFormatStrings ==
    {S_iso8601, S_rfc2822, S_rfc3339, S_unix_timestamp_secs, S_unix_timestamp_millis,
     S_unix_timestamp_micros, S_unix_timestamp_nanos,
     <<"%", "Y", "-", "%", "m", "-", "%", "d">>,
     <<"%", "Y", "-", "%", "m", "-", "%", "d", " ", "%", "H", ":", "%", "M", ":", "%", "S",
       " ", "%", "z">>}

\* The instants given to format_to_json: 1970-01-01, 2021-01-01,
\* 2024-02-29 12:35:07, the last second of 1969 and of 1899, and the first
\* and the last day a 64-bit count of nanoseconds reaches.
Instants ==
    {TantivyDateTime(0, 0), TantivyDateTime(18628, 0), TantivyDateTime(19782, 45307),
     TantivyDateTime(-1, 86399), TantivyDateTime(-25568, 86399),
     TantivyDateTime(-106752, 764), TantivyDateTime(106751, 85636)}

PureInputs ==
    {[kind |-> "java", pattern |-> pattern] : pattern \in PiecePatterns \cup JavaPatterns}
    \cup {[kind |-> "input_format", s |-> s] : s \in FormatStrings}
    \cup {[kind |-> "output_format", s |-> s] : s \in FormatStrings}
    \cup {[kind |-> "infer_year", parsed_month |-> p, this_month |-> c, this_year |-> y] :
            p \in OptionalMonths, c \in 1..12, y \in InferYears}
    \cup {[kind |-> "format_to_json", s |-> s, date_time |-> d] :
            s \in OutputFormatStrings, d \in Instants}

InitPure ==
    /\ InitCommon
    /\ input \in PureInputs

ApplyFromJava ==
    /\ input.kind = "java"
    /\ FromJavaCall("a", input.pattern)
    /\ input' = NoInput

\* from_str of the input format, then as_str of its result, then from_str of
\* that.
ApplyInputFromStr ==
    /\ input.kind = "input_format"
    /\ LET r == InputFromStr(input.s) IN
       call' = [op |-> "input_from_str", s |-> input.s, result |-> r,
                as_str |-> IF r.ok THEN Some(InputAsStr(r.val)) ELSE None,
                again |-> IF r.ok THEN Some(InputFromStr(InputAsStr(r.val))) ELSE None]
    /\ input' = NoInput
    /\ UNCHANGED <<parsers, origin, now, threads, debug_assertions>>

\* The same of the output format.
ApplyOutputFromStr ==
    /\ input.kind = "output_format"
    /\ LET r == OutputFromStr(input.s) IN
       call' = [op |-> "output_from_str", s |-> input.s, result |-> r,
                as_str |-> IF r.ok THEN Some(OutputAsStr(r.val)) ELSE None,
                again |-> IF r.ok THEN Some(OutputFromStr(OutputAsStr(r.val))) ELSE None]
    /\ input' = NoInput
    /\ UNCHANGED <<parsers, origin, now, threads, debug_assertions>>

ApplyInferYear ==
    /\ input.kind = "infer_year"
    /\ call' = [op |-> "infer_year", parsed_month |-> input.parsed_month,
                this_month |-> input.this_month, this_year |-> input.this_year,
                result |-> infer_year(input.parsed_month, input.this_month, input.this_year)]
    /\ input' = NoInput
    /\ UNCHANGED <<parsers, origin, now, threads, debug_assertions>>

\* format_to_json of an instant, on the output format from_str makes of s.
ApplyFormatToJson ==
    /\ input.kind = "format_to_json"
    /\ LET self == OutputFromStr(input.s).val IN
       call' = [op |-> "format_to_json", self |-> self, date_time |-> input.date_time,
                result |-> format_to_json(self, input.date_time)]
    /\ input' = NoInput
    /\ UNCHANGED <<parsers, origin, now, threads, debug_assertions>>

NextPure ==
    \/ ApplyFromJava
    \/ ApplyInputFromStr
    \/ ApplyOutputFromStr
    \/ ApplyInferYear
    \/ ApplyFormatToJson

SpecPure == InitPure /\ [][NextPure]_vars

(***************************************************************************)
(* Threads calling into one compiled pattern at the same time              *)
(***************************************************************************)
\* The patterns the threads share, one per behaviour: without a year (the
\* clock is read), with a year, with an offset, and a Java-style one.
SharedPatterns ==
    {[frontend |-> "strptime", pattern |-> <<"%", "m", "-", "%", "d", " ", "%", "M", ":", "%", "S">>],
     [frontend |-> "strptime", pattern |-> <<"%", "Y", "-", "%", "m", "-", "%", "d">>],
     [frontend |-> "strptime",
      pattern |-> <<"%", "Y", "-", "%", "m", "-", "%", "d", " ", "%", "H", ":", "%", "M", ":",
                    "%", "S", " ", "%", "z">>],
     [frontend |-> "java", pattern |-> <<"y", "y", "-", "M", "M", "-", "d", "d">>]}

\* The pattern a front-end compiles.
Compile(o) ==
    IF o.frontend = "java" THEN from_java_datetime_format(o.pattern)
    ELSE from_strptime(o.pattern)

\* The texts and the instants the threads call with.
SharedFields ==
    {Fields(2021, 4, 30, 13, 45, 59, 0), Fields(2021, 12, 31, 23, 59, 59, -480)}
SharedTexts(self) ==
    {Render(self.items, f) : f \in SharedFields}
        \cup {Render(self.items, Fields(2021, 4, 30, 13, 45, 59, 0)) \o <<"7">>}

InitConc ==
    /\ \E o \in SharedPatterns :
        /\ parsers = [s \in Slots |-> IF s = "a" THEN Some(Compile(o).val) ELSE None]
        /\ origin = [s \in Slots |-> IF s = "a" THEN Some(o) ELSE None]
    /\ now = [year |-> ClockFirstYear, month |-> ClockFirstMonth]
    /\ call = [op |-> "init"]
    /\ input = NoInput
    /\ threads = [t \in Threads |-> Idle]
    /\ debug_assertions \in BOOLEAN

\* The pattern every thread holds a shared reference to.
Shared == Unwrap(parsers["a"])

\* A call returns: the thread keeps what it was called with, the date it
\* read off the clock if it read it, and the result.
Done(t, result) == [threads[t] EXCEPT !.pc = "done", !.result = Some(result)]

\* let mut parsed = Parsed::new(): the fields a call starts from are its own.
Scratch_LeftByOther(t) ==
    LET other == CHOOSE u \in Threads : u # t IN
    IF threads[other].pc = "idle" THEN ParsedNew ELSE threads[other].parsed

Scratch(t) == ParsedNew

\* A thread enters parse_date_time(text) or format_date_time(date_time).
Enter(t, op, arg) ==
    /\ threads[t].pc \in {"idle", "done"}
    /\ threads' = [threads EXCEPT ![t] =
            [pc |-> "entered", op |-> op, arg |-> arg, parsed |-> ParsedNew,
             clock |-> None, result |-> None]]
    /\ UNCHANGED <<parsers, origin, now, call, input, debug_assertions>>

\* parse_date_time reads the flag: with it, OffsetDateTime::parse and return;
\* without it, on into parse_primitive_date_time.
ParseBranch(t) ==
    /\ threads[t].pc = "entered" /\ threads[t].op = "parse_date_time"
    /\ threads' = [threads EXCEPT ![t] =
            IF Shared.with_timezone
            THEN Done(t, FromTime(OffsetDateTimeParse(threads[t].arg, Shared.items)))
            ELSE [threads[t] EXCEPT !.pc = "naive"]]
    /\ UNCHANGED <<parsers, origin, now, call, input, debug_assertions>>

\* parse_primitive_date_time up to the year: the items read off the text
\* into the call's own fields, the leftover refused, the time completed.
ParseItemsStep(t) ==
    /\ threads[t].pc = "naive"
    /\ LET r == parse_items(Scratch(t), threads[t].arg, Shared.items) IN
       threads' = [threads EXCEPT ![t] =
            IF ~r.ok THEN Done(t, Err(TimeError))
            ELSE IF r.rest # <<>>
            THEN Done(t, Err(ErrMsg("does not match strptime format", threads[t].arg,
                                    Shared.strptime_format, -1)))
            ELSE LET parsed == DefaultTime(r.parsed) IN
                 [threads[t] EXCEPT !.parsed = parsed,
                                    !.pc = IF IsNone(parsed.year) THEN "infer" ELSE "build"]]
    /\ UNCHANGED <<parsers, origin, now, call, input, debug_assertions>>

\* The year is missing: the clock is read and the year inferred.
InferStep(t) ==
    /\ threads[t].pc = "infer"
    /\ threads' = [threads EXCEPT ![t] =
            [threads[t] EXCEPT !.clock = Some(now),
                               !.parsed = DefaultYear(threads[t].parsed, now),
                               !.pc = "build"]]
    /\ UNCHANGED <<parsers, origin, now, call, input, debug_assertions>>

\* parsed.try_into(), assume_utc, and return.
BuildStep(t) ==
    /\ threads[t].pc = "build"
    /\ LET date_time == TryIntoPrimitiveDateTime(threads[t].parsed) IN
       threads' = [threads EXCEPT ![t] =
            Done(t, FromTime(date_time))]
    /\ UNCHANGED <<parsers, origin, now, call, input, debug_assertions>>

\* format_date_time writes the instant with the shared items and returns.
FormatStep(t) ==
    /\ threads[t].pc = "entered" /\ threads[t].op = "format_date_time"
    /\ threads' = [threads EXCEPT ![t] = Done(t, Ok(Render(Shared.items, threads[t].arg)))]
    /\ UNCHANGED <<parsers, origin, now, call, input, debug_assertions>>

NextConc ==
    \/ \E t \in Threads, text \in SharedTexts(Shared) : Enter(t, "parse_date_time", text)
    \/ \E t \in Threads, date_time \in SharedFields : Enter(t, "format_date_time", date_time)
    \/ \E t \in Threads : ParseBranch(t)
    \/ \E t \in Threads : ParseItemsStep(t)
    \/ \E t \in Threads : InferStep(t)
    \/ \E t \in Threads : BuildStep(t)
    \/ \E t \in Threads : FormatStep(t)
    \/ Tick

SpecConc == InitConc /\ [][NextConc]_vars

(***************************************************************************)
(* The properties                                                          *)
(***************************************************************************)
\* The last call was parse_date_time on a parser that expects no offset.
NaiveParse == call.op = "parse_date_time" /\ ~call.self.with_timezone

\* The fields the items of the last parse read off its text, before any
\* defaulting.
RawParse == parse_items(ParsedNew, call.text, call.self.items)

S_Ymd == <<"%", "Y", "-", "%", "m", "-", "%", "d">>
S_2021_01_01_TABC ==
    <<"2", "0", "2", "1", "-", "0", "1", "-", "0", "1", "T", "A", "B", "C">>

\* C1: on the naive path, a text with characters left over after every item
\* has matched is refused, with the error that names the text and the
\* parser's pattern string; no instant is returned.
C1_LeftoverTextFails ==
    NaiveParse =>
        ((RawParse.ok /\ RawParse.rest # <<>>) =>
            /\ ~call.result.ok
            /\ call.result.err.kind = "does not match strptime format"
            /\ call.result.err.text = call.text
            /\ call.result.err.pattern = call.self.strptime_format)

\* C1, its case: `2021-01-01TABC` parsed with `%Y-%m-%d` leaves `TABC`.
C1_Witness ==
    /\ NaiveParse
    /\ call.self.strptime_format = S_Ymd
    /\ call.text = S_2021_01_01_TABC
    /\ RawParse.ok /\ RawParse.rest = <<"T", "A", "B", "C">>
    /\ ~call.result.ok

\* Whether the text gave an hour: a 24-hour hour, or a 12-hour hour with its
\* period.
HasHour(parsed) ==
    IsSome(parsed.hour_24) \/ (IsSome(parsed.hour_12) /\ IsSome(parsed.hour_12_is_pm))

\* C2: on the naive path, an instant returned for a text that gave no hour
\* is at 00:00:00; when the text gave an hour, the hour, the minute and the
\* second that were parsed are the instant's.
C2_MidnightWithoutHour ==
    (NaiveParse /\ call.result.ok) =>
        LET p == RawParse.parsed
            v == call.result.val
        IN  /\ ~HasHour(p) => (v.hour = 0 /\ v.minute = 0 /\ v.second = 0 /\ v.offset = 0)
            /\ HasHour(p) =>
                /\ IsSome(p.hour_24) => v.hour = Unwrap(p.hour_24)
                /\ IsNone(p.hour_24) =>
                      v.hour = (Unwrap(p.hour_12) % 12)
                               + (IF Unwrap(p.hour_12_is_pm) THEN 12 ELSE 0)
                /\ IsSome(p.minute) => v.minute = Unwrap(p.minute)
                /\ IsSome(p.second) => v.second = Unwrap(p.second)

\* C2, its case: a text that gave minutes and seconds but no hour, returned
\* as midnight.
C2_Witness ==
    /\ NaiveParse /\ call.result.ok
    /\ ~HasHour(RawParse.parsed)
    /\ IsSome(RawParse.parsed.minute) /\ Unwrap(RawParse.parsed.minute) = 45
    /\ call.result.val.hour = 0 /\ call.result.val.minute = 0

\* C2, a second case: a text that gave a second of 60 and no hour, returned
\* as midnight all the same.
C2_SecondSixtyWitness ==
    /\ NaiveParse /\ call.result.ok
    /\ ~HasHour(RawParse.parsed)
    /\ RawParse.parsed.second = Some(60)
    /\ call.result.val.second = 0

\* Whether day d of month m of year y is a date of the calendar.
ExistingDate(y, m, d) ==
    /\ m \in 1..12 /\ d >= 1
    /\ \/ d <= 28
       \/ d <= 30 /\ m # 2
       \/ d = 31 /\ m \in {1, 3, 5, 7, 8, 10, 12}
       \/ d = 29 /\ m = 2 /\ y % 4 = 0 /\ (y % 100 # 0 \/ y % 400 = 0)

\* C10: on the naive path, a text that was read in full and whose month and
\* day, with the year parsed or inferred, are no date of the calendar is
\* refused; an instant that is returned has the month and the day that were
\* parsed.
C10_NoSuchDateFails ==
    (NaiveParse /\ RawParse.ok /\ RawParse.rest = <<>>
        /\ IsSome(RawParse.parsed.month) /\ IsSome(RawParse.parsed.day)) =>
        LET p == RawParse.parsed
            y == IF IsSome(p.year) THEN Unwrap(p.year)
                 ELSE infer_year(p.month, call.now.month, call.now.year)
        IN  /\ ~ExistingDate(y, Unwrap(p.month), Unwrap(p.day)) => ~call.result.ok
            /\ call.result.ok =>
                 /\ call.result.val.month = Unwrap(p.month)
                 /\ call.result.val.day = Unwrap(p.day)

S_Ymd_j == <<"%", "Y", "-", "%", "m", "-", "%", "d", " ", "%", "j">>
S_2021_04_31_121 ==
    <<"2", "0", "2", "1", "-", "0", "4", "-", "3", "1", " ", "1", "2", "1">>

\* C10, the case that breaks it: `%Y-%m-%d %j` on `2021-04-31 121`. The 31st
\* of April is read in full, and the instant returned is the year's 121st
\* day, the 1st of May.
C10_OrdinalWinsWitness ==
    /\ NaiveParse
    /\ call.self.strptime_format = S_Ymd_j
    /\ call.text = S_2021_04_31_121
    /\ RawParse.ok /\ RawParse.rest = <<>>
    /\ RawParse.parsed.month = Some(4) /\ RawParse.parsed.day = Some(31)
    /\ RawParse.parsed.ordinal = Some(121)
    /\ call.result.ok
    /\ call.result.val.year = 2021
    /\ call.result.val.month = 5 /\ call.result.val.day = 1

\* C10, where it does hold: when the text gave no day of the year, a month
\* and a day that are no date are refused, and an instant returned has them.
C10_HoldsWithoutOrdinal ==
    (NaiveParse /\ RawParse.ok /\ RawParse.rest = <<>>
        /\ IsSome(RawParse.parsed.month) /\ IsSome(RawParse.parsed.day)
        /\ IsNone(RawParse.parsed.ordinal)) =>
        LET p == RawParse.parsed
            y == IF IsSome(p.year) THEN Unwrap(p.year)
                 ELSE infer_year(p.month, call.now.month, call.now.year)
        IN  /\ ~ExistingDate(y, Unwrap(p.month), Unwrap(p.day)) => ~call.result.ok
            /\ call.result.ok =>
                 /\ call.result.val.year = y
                 /\ call.result.val.month = Unwrap(p.month)
                 /\ call.result.val.day = Unwrap(p.day)

\* C10, the ordinary case: the 31st of April, read in full and refused.
C10_Witness ==
    /\ NaiveParse /\ RawParse.ok /\ RawParse.rest = <<>>
    /\ RawParse.parsed.month = Some(4) /\ RawParse.parsed.day = Some(31)
    /\ IsNone(RawParse.parsed.ordinal)
    /\ ~call.result.ok

\* C3: infer_year returns the year before the current one exactly when a
\* month was parsed and its number is more than three above the current
\* month's, the numbers compared as they are; otherwise the current year, so
\* without a parsed month and for the current month itself.
C3_InferYear ==
    call.op = "infer_year" =>
        LET p == call.parsed_month
            c == call.this_month
            Y == call.this_year
            past == IsSome(p) /\ Unwrap(p) > c + 3
        IN  /\ past => call.result = Y - 1
            /\ ~past => call.result = Y
            /\ IsNone(p) => call.result = Y
            /\ p = Some(c) => call.result = Y

\* C3, its case: May parsed in January 2024 gives 2023.
C3_Witness ==
    /\ call.op = "infer_year"
    /\ call.parsed_month = Some(5) /\ call.this_month = 1 /\ call.this_year = 2024
    /\ call.result = 2023

\* The last call was one of the two from_str.
FromStrCall == call.op \in {"input_from_str", "output_from_str"}

\* The short names of the enumeration the last from_str belongs to.
ShortNames ==
    IF call.op = "input_from_str"
    THEN {S_iso8601, S_rfc2822, S_rfc3339, S_unix_timestamp}
    ELSE {S_iso8601, S_rfc2822, S_rfc3339, S_unix_timestamp_secs,
          S_unix_timestamp_millis, S_unix_timestamp_micros, S_unix_timestamp_nanos}

\* C4: for a string from_str accepts, as_str of the result is the short name
\* in lower case when the string is a short name in any letter case, and
\* otherwise the result is the custom variant and as_str is the string
\* itself; from_str of that as_str gives an equal format again.
C4_FromStrAsStr ==
    (FromStrCall /\ call.result.ok) =>
        LET lower == to_lowercase(call.s)
            v == call.result.val
        IN  /\ lower \in ShortNames =>
                (v.variant # "Strptime" /\ Unwrap(call.as_str) = lower)
            /\ lower \notin ShortNames =>
                (v.variant = "Strptime" /\ Unwrap(call.as_str) = call.s)
            /\ Unwrap(call.again).ok
            /\ FormatEq(Unwrap(call.again).val, v)

\* C4, its case: `Unix_Timestamp_Secs` as an output format.
C4_Witness ==
    /\ call.op = "output_from_str"
    /\ call.s = <<"U", "n", "i", "x", "_", "T", "i", "m", "e", "s", "t", "a", "m", "p",
                  "_", "S", "e", "c", "s">>
    /\ call.result.ok /\ call.result.val.variant = "TimestampSecs"
    /\ call.as_str = Some(S_unix_timestamp_secs)

\* Whether a `%` of s is followed by the letter of one of the 36 markers.
HasMarker(s) ==
    \E i \in 1..(Len(s) - 1) : s[i] = "%" /\ s[i + 1] \in STRFTIME_FORMAT_MARKERS

S_test_percent == <<"t", "e", "s", "t", "%">>
S_test_v == <<"t", "e", "s", "t", "-", "%", "v">>
S_unix_timestamp_seconds ==
    <<"u", "n", "i", "x", "_", "t", "i", "m", "e", "s", "t", "a", "m", "p", "_", "s", "e",
      "c", "o", "n", "d", "s">>

\* from_str refused the string as an unknown format of its enumeration,
\* quoting it, without having called from_strptime.
RefusedAsUnknown ==
    /\ ~call.result.ok
    /\ call.result.err.kind = (IF call.op = "input_from_str" THEN "unknown input format"
                               ELSE "unknown output format")
    /\ call.result.err.pattern = call.s
    /\ ~call.result.compile_attempted

\* C5: a string that is no short name of the enumeration in any letter case
\* and holds none of the 36 markers is refused as an unknown format, with no
\* compilation attempted; so are `test%`, `test-%v`, `unix_timestamp_seconds`
\* and, as an input format, `unix_timestamp_secs`.
C5_UnknownFormat ==
    FromStrCall =>
        /\ (to_lowercase(call.s) \notin ShortNames /\ ~HasMarker(call.s)) => RefusedAsUnknown
        /\ call.s \in {S_test_percent, S_test_v, S_unix_timestamp_seconds} => RefusedAsUnknown
        /\ (call.op = "input_from_str" /\ call.s = S_unix_timestamp_secs) => RefusedAsUnknown

\* C5, its case: `unix_timestamp_secs` given as an input format.
C5_Witness ==
    /\ call.op = "input_from_str" /\ call.s = S_unix_timestamp_secs
    /\ RefusedAsUnknown

\* The last call was from_java_datetime_format.
JavaCall == call.op = "from_java_datetime_format"

\* The offsets of `text` at which the tokenizer stood: the start, and the
\* end of every match.
Reached(spans, o) == o = 0 \/ \E j \in 1..Len(spans) : spans[j].pos + spans[j].len = o

\* The matches lie end to end from offset 0 up to `upto`, each the match of
\* the first rule that matches there.
Tiled(text, spans, upto) ==
    /\ (IF spans = <<>> THEN 0 ELSE spans[Len(spans)].pos + spans[Len(spans)].len) = upto
    /\ \A j \in 1..Len(spans) :
        /\ spans[j].pos = (IF j = 1 THEN 0 ELSE spans[j - 1].pos + spans[j - 1].len)
        /\ spans[j].len > 0
        /\ spans[j].rule = FirstRule(Drop(text, spans[j].pos))
        /\ spans[j].len = RuleMatchLen(spans[j].rule, Drop(text, spans[j].pos))

\* A character none of the six rules accepts outside a quoted run: a word
\* character other than y, M and d, or a bracket.
Uncovered(c) == (IsWordChar(c) /\ c \notin {"y", "M", "d"}) \/ c \in {"[", "]", "{", "}"}

\* 1-based index i of the text lies in a quoted run that was matched.
InQuotedRun(spans, i) ==
    \E j \in 1..Len(spans) :
        spans[j].rule = 5 /\ spans[j].pos < i /\ i <= spans[j].pos + spans[j].len

\* C6: from_java_datetime_format fails when the pattern, after an alias name
\* has been replaced by the pattern it stands for, holds outside the quoted
\* runs a character no rule covers; the error of every failure quotes the
\* pattern as the caller passed it, with the offset into the replaced pattern
\* of the first position at which no rule matches, every position before it
\* consumed by rule matches lying end to end.
C6_JavaCompileFailure ==
    JavaCall =>
        LET text == call.resolved
            r == call.result
        IN  /\ (\E i \in 1..Len(text) : Uncovered(text[i]) /\ ~InQuotedRun(call.spans, i))
                    => ~r.ok
            /\ ~r.ok =>
                /\ r.err.kind = "failed to parse date format"
                /\ r.err.pattern = call.pattern
                /\ r.err.pos \in 0..(Len(text) - 1)
                /\ FirstRule(Drop(text, r.err.pos)) = 0
                /\ Tiled(text, call.spans, r.err.pos)

\* C6 as stated, read on the pattern as passed: a pattern without quotes that
\* holds a character no rule covers fails, at the first of its own offsets at
\* which no rule matches.
C6_AsStated ==
    (JavaCall /\ \E i \in 1..Len(call.pattern) : Uncovered(call.pattern[i])
              /\ ~Contains(call.pattern, <<QUOTE>>)) =>
        /\ ~call.result.ok
        /\ call.result.err.pattern = call.pattern
        /\ call.result.err.pos = tokenize(call.pattern).err

\* C6, its case: the alias `date_optional_time` fails at offset 13 of the
\* pattern it stands for, and the error quotes the alias.
C6_Witness ==
    /\ JavaCall /\ call.pattern = S_date_optional_time
    /\ call.resolved = J_millis
    /\ ~call.result.ok
    /\ call.result.err.pattern = S_date_optional_time
    /\ call.result.err.pos = 13

\* The number of `y` the text starts with.
RECURSIVE YRun(_)
YRun(s) == IF s # <<>> /\ Head(s) = "y" THEN 1 + YRun(Tail(s)) ELSE 0

\* A run of `y` starts at offset o of the text, and the tokenizer stood there.
YRunAt(text, spans, o) ==
    /\ Reached(spans, o)
    /\ text[o + 1] = "y"
    /\ (o = 0 \/ text[o] # "y")

\* The match at offset o is that of rule `rule` over n characters and built
\* `item`.
MatchAt(spans, tokens, o, n, rule, item) ==
    \E j \in 1..Len(spans) :
        /\ spans[j] = [pos |-> o, len |-> n, rule |-> rule]
        /\ j <= Len(tokens)
        /\ tokens[j] = item

\* C7: in a Java-style pattern a run of exactly two `y` compiles to the
\* two-digit year component and a run of four `y` to the four-digit year
\* component; a single `y` matches no rule, and the pattern fails at its offset.
C7_YearRuns ==
    JavaCall =>
        \A o \in 0..(Len(call.resolved) - 1) :
            YRunAt(call.resolved, call.spans, o) =>
                LET n == YRun(Drop(call.resolved, o)) IN
                /\ n = 2 => MatchAt(call.spans, call.tokens, o, 2, 1,
                                    Component("Year", "LastTwo"))
                /\ n = 4 => MatchAt(call.spans, call.tokens, o, 4, 1,
                                    Component("Year", "Full"))
                /\ n = 1 => (~call.result.ok /\ call.result.err.pos = o)

\* C7 as stated: a run of one or two `y` compiles to the two-digit year
\* component, a run of four to the four-digit one.
C7_AsStated ==
    JavaCall =>
        \A o \in 0..(Len(call.resolved) - 1) :
            YRunAt(call.resolved, call.spans, o) =>
                LET n == YRun(Drop(call.resolved, o)) IN
                /\ n \in {1, 2} => MatchAt(call.spans, call.tokens, o, n, 1,
                                           Component("Year", "LastTwo"))
                /\ n = 4 => MatchAt(call.spans, call.tokens, o, 4, 1,
                                    Component("Year", "Full"))

\* C7, its case: `yy-yyyy` compiles to the two-digit year, a dash and the
\* four-digit year.
C7_Witness ==
    /\ JavaCall /\ call.pattern = <<"y", "y", "-", "y", "y", "y", "y">>
    /\ call.result.ok
    /\ call.result.val.items
         = <<Component("Year", "LastTwo"), literal(<<"-">>), Component("Year", "Full")>>

\* C7, the single `y`: `y-MM-dd` fails at offset 0.
C7_SingleYWitness ==
    /\ JavaCall /\ call.pattern = <<"y", "-", "M", "M", "-", "d", "d">>
    /\ ~call.result.ok /\ call.result.err.pos = 0

\* A separator: neither a word character (a letter, a digit or `_`), nor one
\* of the brackets, nor the quote.
Separator(c) == ~IsWordChar(c) /\ c \notin {"[", "]", "{", "}"} /\ c # QUOTE

\* A character that is neither alphanumeric, nor a bracket, nor the quote.
NotAlnumNotBracket(c) ==
    /\ ~(IsDigit(c) \/ IsUpper(c) \/ IsLower(c))
    /\ c \notin {"[", "]", "{", "}"} /\ c # QUOTE

\* The text is made of the year, month and day tokens the rules accept and of
\* characters of `Sep`.
MadeOfTokensAnd(Sep(_), text) ==
    /\ \A i \in 1..Len(text) : text[i] \in {"y", "M", "d"} \/ Sep(text[i])
    /\ \A o \in 0..(Len(text) - 1) :
        (text[o + 1] = "y" /\ (o = 0 \/ text[o] # "y")) => YRun(Drop(text, o)) % 2 = 0

\* Every character of `Sep` the tokenizer stood at was matched alone by the
\* last rule and built the literal of that character.
LiteralsOf(Sep(_)) ==
    \A o \in 0..(Len(call.resolved) - 1) :
        (Reached(call.spans, o) /\ Sep(call.resolved[o + 1])) =>
            MatchAt(call.spans, call.tokens, o, 1, 6, literal(<<call.resolved[o + 1]>>))

\* C8: in a Java-style pattern every character outside a quoted run that is
\* neither a word character (a letter, a digit or `_`) nor a bracket compiles
\* to a literal holding exactly that character, so a pattern made of year,
\* month and day tokens and such separators always compiles.
C8_SeparatorLiterals ==
    JavaCall =>
        /\ LiteralsOf(Separator)
        /\ MadeOfTokensAnd(Separator, call.resolved) => call.result.ok

\* C8 as stated, the separators being the characters that are neither
\* alphanumeric nor a bracket.
C8_AsStated ==
    JavaCall =>
        /\ LiteralsOf(NotAlnumNotBracket)
        /\ MadeOfTokensAnd(NotAlnumNotBracket, call.resolved) => call.result.ok

\* C8, its case: `yyyy!MM?dd` compiles with the literals `!` and `?`.
C8_Witness ==
    /\ JavaCall /\ call.pattern = <<"y", "y", "y", "y", "!", "M", "M", "?", "d", "d">>
    /\ call.result.ok
    /\ call.result.val.items[2] = literal(<<"!">>)
    /\ call.result.val.items[4] = literal(<<"?">>)

\* The string a parser keeps of the pattern it was made from: the pattern as
\* given by from_strptime, the pattern an alias stands for by
\* from_java_datetime_format.
KeptString(o) ==
    IF o.frontend = "java" THEN resolve_java_datetime_format_alias(o.pattern) ELSE o.pattern

BothCompiled == IsSome(parsers["a"]) /\ IsSome(parsers["b"])

\* C9: two compiled patterns are equal if and only if the strings they keep
\* are equal: the pattern as given for from_strptime, and for
\* from_java_datetime_format the pattern with an alias name replaced by the
\* pattern it stands for.
C9_EqualByKeptString ==
    BothCompiled =>
        (ParserEq(Unwrap(parsers["a"]), Unwrap(parsers["b"]))
            <=> KeptString(Unwrap(origin["a"])) = KeptString(Unwrap(origin["b"])))

\* C9 as stated: two compiled patterns are equal if and only if the pattern
\* strings they were constructed from are equal.
C9_AsStated ==
    BothCompiled =>
        (ParserEq(Unwrap(parsers["a"]), Unwrap(parsers["b"]))
            <=> Unwrap(origin["a"]).pattern = Unwrap(origin["b"]).pattern)

\* C9, its case: the alias `basic_date` and the pattern `yyyyMMdd`, both
\* compiled by from_java_datetime_format, are equal.
C9_Witness ==
    /\ BothCompiled
    /\ Unwrap(origin["a"]) = [frontend |-> "java", pattern |-> S_basic_date]
    /\ Unwrap(origin["b"]) = [frontend |-> "java", pattern |-> J_basic_date]
    /\ ParserEq(Unwrap(parsers["a"]), Unwrap(parsers["b"]))

\* The three date tokens of a Java-style pattern.
T_yyyy == <<"y", "y", "y", "y">>
T_MM == <<"M", "M">>
T_dd == <<"d", "d">>

\* A Java-style pattern made of a four-digit year, a two-digit month and a
\* two-digit day, in any order, with one separator between two of them.
YearMonthDayPattern(p) ==
    \E order \in {f \in [1..3 -> {T_yyyy, T_MM, T_dd}] : \A i, j \in 1..3 : f[i] = f[j] => i = j} :
        /\ Len(p) = 10
        /\ LET a == Len(order[1])
               b == Len(order[2])
           IN  /\ SubSeq(p, 1, a) = order[1]
               /\ Separator(p[a + 1])
               /\ SubSeq(p, a + 2, a + 1 + b) = order[2]
               /\ Separator(p[a + b + 2])
               /\ SubSeq(p, a + b + 3, 10) = order[3]

\* The instants at midnight UTC, with a year of four digits, of the dates the
\* model draws.
MidnightInstants ==
    {Fields(f.year, f.month, f.day, 0, 0, 0, 0) : f \in {g \in DateTimes : g.year \in 1000..9999}}

\* The parser of the last parse_date_time was compiled by
\* from_java_datetime_format from a year, month and day pattern.
ParseWithYearMonthDayPattern ==
    /\ call.op = "parse_date_time"
    /\ IsSome(origin["a"])
    /\ Unwrap(origin["a"]).frontend = "java"
    /\ YearMonthDayPattern(Unwrap(origin["a"]).pattern)

\* C11: with a Java-style pattern made of a four-digit year, a two-digit
\* month and a two-digit day with literal separators between them,
\* parse_date_time of the text format_date_time writes for an instant at
\* midnight UTC with a four-digit year returns that instant.
C11_JavaRoundTrip ==
    ParseWithYearMonthDayPattern =>
        \A d \in MidnightInstants :
            LET written == format_date_time(call.self, d) IN
            (written.ok /\ call.text = written.val) => call.result = Ok(d)

\* C11, its case: `2021!01?01`, written with `yyyy!MM?dd` for 2021-01-01
\* 00:00:00, parsed back to it.
C11_Witness ==
    /\ ParseWithYearMonthDayPattern
    /\ Unwrap(origin["a"]).pattern = <<"y", "y", "y", "y", "!", "M", "M", "?", "d", "d">>
    /\ call.text = format_date_time(call.self, Fields(2021, 1, 1, 0, 0, 0, 0)).val
    /\ call.text = <<"2", "0", "2", "1", "!", "0", "1", "?", "0", "1">>
    /\ call.result = Ok(Fields(2021, 1, 1, 0, 0, 0, 0))

\* The output formats that are raw timestamps.
RawTimestampVariants ==
    {"TimestampSecs", "TimestampMillis", "TimestampMicros", "TimestampNanos"}

\* C12: what format_to_json returns for the Iso8601, Rfc2822, Rfc3339 and
\* custom-pattern output formats is a JSON string; for each of the four raw
\* timestamp formats it returns a JSON integer number and never an error.
C12_JsonStringOrInteger ==
    call.op = "format_to_json" =>
        LET variant == call.self.variant
            r == call.result
        IN  /\ variant \in {"Iso8601", "Rfc2822", "Rfc3339", "Strptime"} =>
                (r.ok => r.val.type = "String")
            /\ variant \in RawTimestampVariants =>
                (r.ok /\ r.val.type = "Number" /\ r.val.integer)
            /\ variant \in {"Iso8601", "Rfc2822", "Rfc3339", "Strptime"} \cup RawTimestampVariants

\* C12, its case: 2021-01-01 00:00:00 as milliseconds is a number.
C12_Witness ==
    /\ call.op = "format_to_json"
    /\ call.self.variant = "TimestampMillis"
    /\ call.date_time = TantivyDateTime(18628, 0)
    /\ call.result = Ok(JsonNumber(into_timestamp(TantivyDateTime(18628, 0), 1000)))

\* C12, the strings: 2021-01-01 00:00:00 written by each of the standards
\* and by a custom pattern.
C12_StringsWitness ==
    /\ call.op = "format_to_json"
    /\ call.date_time = TantivyDateTime(18628, 0)
    /\ call.result.ok /\ call.result.val.type = "String"
    /\ \/ call.self.variant = "Rfc3339"
          /\ call.result.val.s = <<"2", "0", "2", "1", "-", "0", "1", "-", "0", "1", "T",
                                   "0", "0", ":", "0", "0", ":", "0", "0", "Z">>
       \/ call.self.variant = "Rfc2822"
          /\ call.result.val.s = <<"F", "r", "i", ",", " ", "0", "1", " ", "J", "a", "n", " ",
                                   "2", "0", "2", "1", " ", "0", "0", ":", "0", "0", ":",
                                   "0", "0", " ", "+", "0", "0", "0", "0">>

\* C12, an error of a string format: Rfc2822 has no year before 1900.
C12_Rfc2822ErrorWitness ==
    /\ call.op = "format_to_json"
    /\ call.self.variant = "Rfc2822"
    /\ call.date_time = TantivyDateTime(-25568, 86399)
    /\ ~call.result.ok

\* The dates the clock shows while it runs.
ClockDates ==
    {[year |-> ClockFirstYear + (ClockFirstMonth - 1 + k) \div 12,
      month |-> ((ClockFirstMonth - 1 + k) % 12) + 1] : k \in 0..ClockMonths}

\* The pattern was compiled with a year component, of four or of two digits.
HasYearItem(items) ==
    \E i \in 1..Len(items) : items[i].k = "Year" /\ items[i].mod \in {"Full", "LastTwo"}

\* C13: for a compiled pattern with a year component, of four digits or of
\* two, from either front-end, the year of the instant a successful naive
\* parse returns is that of the text alone: the same text parsed at any
\* other date of the clock gives, when it succeeds, the same year.
C13_YearFromTextAlone ==
    (NaiveParse /\ HasYearItem(call.self.items) /\ call.result.ok) =>
        \A other \in ClockDates :
            LET r == parse_date_time(call.self, call.text, other) IN
            r.ok => r.val.year = call.result.val.year

\* C13, its case: `21-12-31` parsed with `%y-%m-%d` in August 2024 is
\* returned in 2023, the year inferred from the clock.
C13_TwoDigitYearInferred ==
    /\ NaiveParse /\ call.result.ok
    /\ call.self.strptime_format = <<"%", "y", "-", "%", "m", "-", "%", "d">>
    /\ call.text = <<"2", "1", "-", "1", "2", "-", "3", "1">>
    /\ RawParse.parsed.year_last_two = Some(21) /\ IsNone(RawParse.parsed.year)
    /\ call.now = [year |-> 2024, month |-> 8]
    /\ call.result.val.year = 2023
    /\ parse_date_time(call.self, call.text, [year |-> 2024, month |-> 9]).val.year = 2024

\* The last parse_date_time went the way the parser's flag says: through
\* OffsetDateTime::parse when it is set, through parse_primitive_date_time
\* otherwise.
PathByFlag ==
    call.op = "parse_date_time" =>
        LET aware == OffsetDateTimeParse(call.text, call.self.items)
            naive == parse_primitive_date_time(call.self, call.text, call.now)
        IN  IF call.self.with_timezone
            THEN call.result.ok = aware.ok /\ (aware.ok => call.result = aware)
            ELSE call.result = naive

\* Whether a percent sign of the pattern is followed by the letter z, small
\* or capital.
NamesOffset(pattern) ==
    \E i \in 1..(Len(pattern) - 1) : pattern[i] = "%" /\ pattern[i + 1] \in {"z", "Z"}

\* C14: at every moment a compiled pattern is held, its offset-expected flag
\* is what compilation made it: for from_strptime, set if and only if the
\* pattern text, letter case put aside, contains `%z`; for
\* from_java_datetime_format, not set; and parse_date_time takes the
\* offset-aware path exactly when the flag is set, the naive path otherwise.
C14_FlagFixedAtCompileTime ==
    /\ IsSome(parsers["a"]) =>
        LET self == Unwrap(parsers["a"]) IN
        IF Unwrap(origin["a"]).frontend = "strptime"
        THEN self.with_timezone <=> NamesOffset(Unwrap(origin["a"]).pattern)
        ELSE ~self.with_timezone
    /\ call.op \in {"parse_date_time", "format_date_time"} =>
            call.self = Unwrap(parsers["a"])
    /\ PathByFlag

S_Ymd_HMS_z ==
    <<"%", "Y", "-", "%", "m", "-", "%", "d", " ", "%", "H", ":", "%", "M", ":", "%", "S",
      " ", "%", "z">>
S_2024_02_29_120507_0530 ==
    <<"2", "0", "2", "4", "-", "0", "2", "-", "2", "9", " ", "1", "2", ":", "0", "5", ":",
      "0", "7", " ", "+", "0", "5", "3", "0">>

\* C14, its case: `%Y-%m-%d %H:%M:%S %z` expects an offset, and a text with
\* an offset is read on the offset-aware path.
C14_Witness ==
    /\ call.op = "parse_date_time"
    /\ call.self.strptime_format = S_Ymd_HMS_z
    /\ call.self.with_timezone
    /\ call.text = S_2024_02_29_120507_0530
    /\ call.result.ok
    /\ call.result = OffsetDateTimeParse(call.text, call.self.items)

\* C14, the naive side: a pattern of from_java_datetime_format is read on the
\* naive path.
C14_JavaNaiveWitness ==
    /\ call.op = "parse_date_time"
    /\ Unwrap(origin["a"]).frontend = "java"
    /\ ~call.self.with_timezone
    /\ call.result.ok
    /\ call.result = parse_primitive_date_time(call.self, call.text, call.now)

\* C14, the substring: `%Y-%m-%d %%z`, whose `%%` writes a percent sign and
\* whose `z` is a letter, contains `%z` and so expects an offset; the text it
\* writes itself is refused on the offset-aware path.
C14_EscapedPercentWitness ==
    /\ call.op = "parse_date_time"
    /\ call.self.strptime_format
         = <<"%", "Y", "-", "%", "m", "-", "%", "d", " ", "%", "%", "z">>
    /\ call.self.with_timezone
    /\ call.text = <<"2", "0", "2", "1", "-", "0", "1", "-", "0", "1", " ", "%", "z">>
    /\ ~call.result.ok
    /\ parse_primitive_date_time(call.self, call.text, call.now).ok

\* C14, the letter case: `%Y-%m-%d %%Z` holds the capital `%Z` and no small
\* `%z`; it compiles (its `%%` writes a percent sign, its `Z` is a letter),
\* it expects an offset, and the text it writes itself is refused on the
\* offset-aware path though the naive path would read it.
C14_UpperCaseWitness ==
    /\ call.op = "parse_date_time"
    /\ call.self.strptime_format
         = <<"%", "Y", "-", "%", "m", "-", "%", "d", " ", "%", "%", "Z">>
    /\ ~Contains(call.self.strptime_format, <<"%", "z">>)
    /\ call.self.with_timezone
    /\ call.text = <<"2", "0", "2", "1", "-", "0", "1", "-", "0", "1", " ", "%", "Z">>
    /\ ~call.result.ok
    /\ parse_primitive_date_time(call.self, call.text, call.now).ok

\* The last call was a parse_date_time that returned an instant on the
\* offset-aware path.
AwareParseOk == call.op = "parse_date_time" /\ call.self.with_timezone /\ call.result.ok

\* C15: the value parse_date_time returns on the offset-aware path is
\* normalized to UTC: it carries the offset zero.
C15_ReturnedInUtc ==
    AwareParseOk => call.result.val.offset = 0

\* C15, its case: `2024-02-29 12:05:07 +0530` is returned with the local
\* fields of the text and the offset +05:30.
C15_KeepsOffsetWitness ==
    /\ AwareParseOk
    /\ call.self.strptime_format = S_Ymd_HMS_z
    /\ call.text = S_2024_02_29_120507_0530
    /\ call.result.val.hour = 12 /\ call.result.val.minute = 5
    /\ call.result.val.offset = 330

\* C16: while any number of parse_date_time and format_date_time calls run
\* against one compiled pattern, the pattern stays what compilation made it
\* (string, flag and items), and every call that has returned returned what
\* the same call returns run alone with the same input at the date it read
\* off the clock, or at any date when it did not read the clock.
C16_CallsDoNotInterfere ==
    /\ parsers["a"] = Some(Compile(Unwrap(origin["a"])).val)
    /\ \A t \in Threads :
        threads[t].pc = "done" =>
            IF threads[t].op = "parse_date_time"
            THEN \A date \in (IF IsSome(threads[t].clock) THEN {Unwrap(threads[t].clock)}
                              ELSE ClockDates) :
                    Unwrap(threads[t].result) = parse_date_time(Shared, threads[t].arg, date)
            ELSE Unwrap(threads[t].result) = format_date_time(Shared, threads[t].arg)

\* C16, the pattern: no step of any call, and no tick of the clock, changes
\* the compiled pattern.
C16_PatternNeverChanges == [][parsers' = parsers]_vars

\* C16, its case: one thread has been given December 2023 for a text without
\* a year, having read the clock in August, while the other, in the same
\* call on the same text, stands after the clock moved on and before it
\* reads it.
C16_Witness ==
    /\ threads["t1"].pc = "done" /\ threads["t1"].op = "parse_date_time"
    /\ threads["t1"].clock = Some([year |-> 2024, month |-> 8])
    /\ Unwrap(threads["t1"].result).ok
    /\ Unwrap(threads["t1"].result).val.year = 2023
    /\ threads["t2"].pc = "infer" /\ threads["t2"].arg = threads["t1"].arg
    /\ now = [year |-> 2024, month |-> 9]

\* The names of the alias table.
AliasNames ==
    {S_date_optional_time, S_strict_date_optional_time, S_strict_date_optional_time_nanos,
     S_basic_date}

\* C17: from_java_datetime_format succeeds for every alias name: the pattern
\* the alias stands for is consumed in full by rule matches lying end to
\* end, and the items of the compiled pattern are those the matches built,
\* in order.
C17_AliasesCompile ==
    (JavaCall /\ call.pattern \in AliasNames) =>
        /\ call.result.ok
        /\ Tiled(call.resolved, call.spans, Len(call.resolved))
        /\ call.result.val.items = call.tokens
        /\ Len(call.tokens) = Len(call.spans)

\* C17, its case: `strict_date_optional_time_nanos` stands for
\* yyyy-MM-dd'T'HH:mm:ss.SSSSSSZ, whose `H` at offset 13 no rule matches.
C17_AliasFailsWitness ==
    /\ JavaCall /\ call.pattern = S_strict_date_optional_time_nanos
    /\ call.resolved = J_nanos
    /\ call.resolved[14] = "H" /\ FirstRule(Drop(call.resolved, 13)) = 0
    /\ ~call.result.ok /\ call.result.err.pos = 13

\* C17, the alias that compiles: `basic_date` gives the four-digit year, the
\* two-digit month and the two-digit day.
C17_BasicDateWitness ==
    /\ JavaCall /\ call.pattern = S_basic_date
    /\ call.result.ok
    /\ call.result.val.items
         = <<Component("Year", "Full"), Component("Month", "Zero"), Component("Day", "Zero")>>

=============================================================================
